---- MODULE Spec2Model ----
\* Model of the transform engine (src/src/engines/drawing/TransformEngine.ts)
\* and of the pencil handler (src/src/engines/drawing/ApplePencilHandler.ts).
\*
\* Units.  Positions are integer pixels.  Scales are in hundredths (100 is the
\* scale 1).  A rotation r radians is held as the integer k with
\* r = k * PI / 1800, so k is the angle in tenths of a degree and the
\* code's r * 180 / PI is k / 10.  Anchor fractions are in hundredths.
\* A JavaScript object is a function over its keys: a key the code never
\* assigns is absent from the DOMAIN, and reading it gives NaN in arithmetic.
EXTENDS Integers, Sequences, FiniteSets, TLC

\* ---------------------------------------------------------------------
\* Bounds of the model
\* ---------------------------------------------------------------------

\* Spec: number of history entries recorded in one behaviour.
MaxRecorded == 2

\* SpecHistory: number of history entries recorded in one behaviour, and the
\* number of successful undo() calls in one behaviour.
MaxHistoryRecorded == 52
MaxHistoryUndos == 1

\* SpecRewind: number of consecutive commits before the undo() calls.
MaxRewindRecorded == 52

\* SpecParams and SpecMode: rotate() is called while the rotation, in tenths
\* of a degree, is below this.
MaxRotation == 900

\* SpecPressure: a pressure sample is taken each millisecond while the
\* clock is below this.
MaxClock == 1003

\* SpecIngest: an event is submitted while fewer than this many are waiting
\* in the buffer.
MaxBuffered == 2

\* SpecGesture: the most touches given to recognizeGesture.
MaxGestureTouches == 4

\* SpecDrag: a drag callback is delivered while the session offset is
\* within this distance of the origin on both axes.
MaxOffset == 60

\* SpecPredict: the longest history given to predictNextPoint.
MaxPredictHistory == 3

\* ---------------------------------------------------------------------
\* Values
\* ---------------------------------------------------------------------

\* JavaScript null.
Null == [null |-> TRUE]

\* NaN: the result of arithmetic on undefined (a missing key).
NaN == -999999

Mul(a, b) == IF a = NaN \/ b = NaN THEN NaN ELSE a * b

\* Math.round(n / d) for d > 0: nearest integer, halves towards +infinity.
RoundDiv(n, d) == IF n = NaN THEN NaN ELSE (2 * n + d) \div (2 * d)

Abs(v) == IF v < 0 THEN -v ELSE v

\* obj.key, NaN when the key is undefined.
Num(obj, key) == IF key \in DOMAIN obj THEN obj[key] ELSE NaN

\* Object.assign(obj, patch)
ObjectAssign(obj, patch) ==
    [k \in (DOMAIN obj) \cup (DOMAIN patch) |->
        IF k \in DOMAIN patch THEN patch[k] ELSE obj[k]]

\* ---------------------------------------------------------------------
\* The rendering collaborator: surfaces and their pixel content
\* ---------------------------------------------------------------------

\* Pixel content is a base picture and the list of matrices it was drawn
\* through.  Transparent is a cleared canvas.
Transparent == [base |-> "transparent", ops |-> <<>>]

Picture(name) == [base |-> name, ops |-> <<>>]

\* Layers that have a surface (valkyrieEngine.getLayerSurface is non-null).
LayerIds == {"L1"}

\* A layer id with no surface.
MissingLayerId == "L0"

\* Cells of pixel content: the layer surfaces, the main surface and the
\* canvas area under the selection.
Cells == LayerIds \cup {"main", "selection"}

SurfaceBounds == [x |-> 0, y |-> 0, width |-> 100, height |-> 100]

SelectionBounds == [x |-> 10, y |-> 10, width |-> 50, height |-> 50]

\* A surface reference: a live surface (its content is whatever the cell
\* holds when it is read) or a detached offscreen surface with its own content.
LiveSurface(id) == [live |-> TRUE, id |-> id, content |-> Transparent]

OffscreenSurface(content) == [live |-> FALSE, id |-> "", content |-> content]

\* surface.makeImageSnapshot(): the content at the time of the call.
makeImageSnapshot(surface, px) ==
    IF surface.live THEN px[surface.id] ELSE surface.content

\* Transform targets.
LayerTarget(id) == [type |-> "layer", layerId |-> id]

SelectionTarget == [type |-> "selection", layerId |-> ""]

AllTarget == [type |-> "all", layerId |-> ""]

Targets == {LayerTarget(id) : id \in LayerIds \cup {MissingLayerId}}
              \cup {SelectionTarget, AllTarget}

\* The cell holding a target's content.
TargetCell(target) ==
    IF target.type = "layer" THEN target.layerId
    ELSE IF target.type = "selection" THEN "selection"
    ELSE "main"

\* ---------------------------------------------------------------------
\* Engine state
\* ---------------------------------------------------------------------

VARIABLES
    activeTransform,      \* ActiveTransform or Null
    transformMatrix,      \* the composed matrix or Null
    originalContent,      \* TransformContent or Null
    mode,
    interpolation,
    maintainAspectRatio,
    snapEnabled,
    handles,
    activeHandle,         \* TransformHandle or Null
    transformHistory,
    historyIndex,
    isPreview,
    pixels,               \* content of every cell of the rendering collaborator
    now,                  \* Date.now(), a logical clock
    emitted,              \* events emitted by the last operation, in order
    result,               \* the last operation and how it returned
    call,                 \* the last operation's name and arguments
    sessionStart,         \* history: pixels when the active session started
    lastCommit,           \* history: the target cell of the commit that only
                          \* undo and redo have followed, with its content
                          \* before the session and after the commit
    undos                 \* history: successful undo() calls (SpecHistory)

\* The singleton of src/src/engines/drawing/ApplePencilHandler.ts and its
\* surroundings.
VARIABLES
    applePencilHandler,   \* the fields of the ApplePencilHandler instance
    clock,                \* Date.now() in milliseconds
    pencilEmitted,        \* events the handler emitted in the last call
    touchResult,          \* what the last call of the handler returned
    pencilCall,           \* the last call of the handler and its arguments
    pencilLog,            \* history: the steps of the last call, in order
    contacts              \* history: the contacts on the screen, each with how
                          \* its touchstart was answered

engineVars == <<activeTransform, transformMatrix, originalContent, mode,
                interpolation, maintainAspectRatio, snapEnabled, handles,
                activeHandle, transformHistory, historyIndex, isPreview,
                pixels, now, emitted, result, call, sessionStart, lastCommit,
                undos>>

pencilVars == <<applePencilHandler, clock, pencilEmitted, touchResult,
                pencilCall, pencilLog, contacts>>

vars == <<engineVars, pencilVars>>

\* The engine and its collaborators as one record, so that a method is an
\* operator from state to state.
State ==
    [activeTransform |-> activeTransform, transformMatrix |-> transformMatrix,
     originalContent |-> originalContent, mode |-> mode,
     interpolation |-> interpolation,
     maintainAspectRatio |-> maintainAspectRatio, snapEnabled |-> snapEnabled,
     handles |-> handles, activeHandle |-> activeHandle,
     transformHistory |-> transformHistory, historyIndex |-> historyIndex,
     isPreview |-> isPreview, pixels |-> pixels, now |-> now,
     emitted |-> emitted, result |-> result]

previewQuality == 50

finalQuality == 100

snapThreshold == 50

maxHistory == 50

handleSize == 20

gridSize == 10

\* eventBus.emit(name, payload)
emit(s, name, payload) ==
    [s EXCEPT !.emitted = Append(@, [name |-> name, payload |-> payload])]

NoPayload == [none |-> TRUE]

\* ---------------------------------------------------------------------
\* Matrix composition and mapping
\* ---------------------------------------------------------------------

MatrixOp(op, a, b) == [op |-> op, a |-> a, b |-> b]

Neg(v) == IF v = NaN THEN NaN ELSE -v

Add(a, b) == IF a = NaN \/ b = NaN THEN NaN ELSE a + b

\* bounds.x + bounds.width * t.anchorX, the anchor fraction in hundredths
AnchorOf(origin, extent, fraction) ==
    Add(origin, RoundDiv(Mul(extent, fraction), 100))

\* cos and sin in thousandths of an angle in tenths of a degree
CosQ(a) ==
    CASE a = 0 -> 1000
      [] a = 300 -> 866
      [] a = 400 -> 766
      [] a = 445 -> 713
      [] a = 450 -> 707
      [] a = 455 -> 701
      [] a = 500 -> 643
      [] a = 600 -> 500
      [] a = 900 -> 0

CosMilli(a) ==
    LET n == a % 3600 IN
    IF n <= 900 THEN CosQ(n)
    ELSE IF n <= 1800 THEN -CosQ(1800 - n)
    ELSE IF n <= 2700 THEN -CosQ(n - 1800)
    ELSE CosQ(3600 - n)

SinMilli(a) == CosMilli(a + 2700)

\* One matrix operation applied to a point <<x, y>>.
ApplyOp(m, p) ==
    IF p[1] = NaN \/ p[2] = NaN \/ m.a = NaN \/ m.b = NaN THEN <<NaN, NaN>>
    ELSE CASE m.op = "translate" -> <<p[1] + m.a, p[2] + m.b>>
           [] m.op = "rotate" ->
                <<RoundDiv(p[1] * CosMilli(m.a) - p[2] * SinMilli(m.a), 1000),
                  RoundDiv(p[1] * SinMilli(m.a) + p[2] * CosMilli(m.a), 1000)>>
           [] m.op = "scale" ->
                <<RoundDiv(p[1] * m.a, 100), RoundDiv(p[2] * m.b, 100)>>
           [] m.op = "skew" ->
                <<p[1] + RoundDiv(p[2] * m.a, 100),
                  p[2] + RoundDiv(p[1] * m.b, 100)>>

\* matrix.mapPoint(x, y): each call on the matrix pre-concatenates, so the
\* operation called last acts on the point first.
RECURSIVE MapFrom(_, _, _)
MapFrom(matrix, i, p) ==
    IF i = 0 THEN p ELSE MapFrom(matrix, i - 1, ApplyOp(matrix[i], p))

mapPoint(matrix, x, y) == MapFrom(matrix.ops, Len(matrix.ops), <<x, y>>)

\* The matrix maps every point to itself (checked on an affine frame).
IsIdentityMatrix(matrix) ==
    /\ mapPoint(matrix, 0, 0) = <<0, 0>>
    /\ mapPoint(matrix, 1000, 0) = <<1000, 0>>
    /\ mapPoint(matrix, 0, 1000) = <<0, 1000>>

updateTransformMatrix(s) ==
    IF s.activeTransform = Null THEN s
    ELSE
      LET t == s.activeTransform.transform
          bounds == s.activeTransform.bounds
          anchorX == AnchorOf(bounds.x, bounds.width, Num(t, "anchorX"))
          anchorY == AnchorOf(bounds.y, bounds.height, Num(t, "anchorY"))
          matrix == [ops |->
            << MatrixOp("translate", anchorX, anchorY),
               MatrixOp("rotate", Num(t, "rotation"), 0),
               MatrixOp("scale",
                        Mul(Num(t, "scaleX"), IF t.flipX THEN -1 ELSE 1),
                        Mul(Num(t, "scaleY"), IF t.flipY THEN -1 ELSE 1)),
               MatrixOp("skew", Num(t, "skewX"), Num(t, "skewY")),
               MatrixOp("translate", Neg(anchorX), Neg(anchorY)),
               MatrixOp("translate", Num(t, "x"), Num(t, "y")) >>]
      IN [s EXCEPT !.transformMatrix = matrix]

\* ---------------------------------------------------------------------
\* Rendering
\* ---------------------------------------------------------------------

\* The picture obtained by drawing an image through a matrix at a quality.
Render(image, matrix, quality, filter) ==
    IF image = Transparent THEN Transparent
    ELSE IF quality = 100 /\ IsIdentityMatrix(matrix) THEN image
    ELSE [base |-> image.base,
          ops |-> Append(image.ops, [matrix |-> matrix, quality |-> quality,
                                     filter |-> filter])]

\* makeOk: whether CompatSkia.Surface.Make returns a surface.
applyTransform(s, content, quality, makeOk) ==
    IF s.transformMatrix = Null THEN Null
    ELSE IF ~makeOk THEN Null
    ELSE OffscreenSurface(Render(content.image, s.transformMatrix, quality,
                                 s.interpolation))

updatePreview(s, makeOk) ==
    IF s.activeTransform = Null \/ s.originalContent = Null THEN s
    ELSE
      LET s1 == [s EXCEPT !.isPreview = TRUE]
          previewSurface ==
            applyTransform(s1, s1.originalContent, previewQuality, makeOk)
      IN IF previewSurface # Null
         THEN emit(s1, "transform:preview",
                   [surface |-> previewSurface,
                    bounds |-> s1.activeTransform.bounds])
         ELSE s1

\* ---------------------------------------------------------------------
\* Snapping
\* ---------------------------------------------------------------------

scaleSnaps == <<25, 50, 100, 150, 200, 300, 400>>

\* One pass of the loop over scaleSnaps for one axis.
RECURSIVE SnapScale(_, _)
SnapScale(v, i) ==
    IF i > Len(scaleSnaps) THEN v
    ELSE SnapScale(IF v # NaN /\ Abs(v - scaleSnaps[i]) < 5
                   THEN scaleSnaps[i] ELSE v, i + 1)

\* Assigns obj.key only when the loop assigned it.
SnapScaleKey(t, key) ==
    LET v == Num(t, key)
        w == SnapScale(v, 1)
    IN IF w = v THEN t ELSE ObjectAssign(t, [k \in {key} |-> w])

\* SnapRotation with the threshold itself inside the window.
SnapRotation_Inclusive(rotation) ==
    LET snappedRotation == Mul(RoundDiv(rotation, 450), 450)
    IN IF rotation # NaN /\ Abs(rotation - snappedRotation) <= snapThreshold
       THEN snappedRotation ELSE rotation

SnapRotation(rotation) ==
    LET snappedRotation == Mul(RoundDiv(rotation, 450), 450)
    IN IF rotation # NaN /\ Abs(rotation - snappedRotation) < snapThreshold
       THEN snappedRotation ELSE rotation

\* applySnapping moving the position to the grid line after it.
applySnapping_NextGridLine(s) ==
    IF s.activeTransform = Null THEN s
    ELSE
      LET t == s.activeTransform.transform
          t1 == [t EXCEPT !.rotation = SnapRotation(@)]
          t2 == SnapScaleKey(SnapScaleKey(t1, "scaleX"), "scaleY")
          t3 == [t2 EXCEPT
                   !.x = Add(Mul(RoundDiv(@, gridSize), gridSize), gridSize),
                   !.y = Add(Mul(RoundDiv(@, gridSize), gridSize), gridSize)]
      IN [s EXCEPT !.activeTransform.transform = t3]

applySnapping(s) ==
    IF s.activeTransform = Null THEN s
    ELSE
      LET t == s.activeTransform.transform
          t1 == [t EXCEPT !.rotation = SnapRotation(@)]
          t2 == SnapScaleKey(SnapScaleKey(t1, "scaleX"), "scaleY")
          t3 == [t2 EXCEPT !.x = Mul(RoundDiv(@, gridSize), gridSize),
                           !.y = Mul(RoundDiv(@, gridSize), gridSize)]
      IN [s EXCEPT !.activeTransform.transform = t3]

\* ---------------------------------------------------------------------
\* Handles
\* ---------------------------------------------------------------------

Named(name) == [name |-> name]

Handle(type, position, cursor) ==
    [type |-> type, position |-> position, cursor |-> cursor]

setupHandles(s) ==
    [s EXCEPT !.handles =
      << Handle("corner", Named("top-left"), "nwse-resize"),
         Handle("corner", Named("top-right"), "nesw-resize"),
         Handle("corner", Named("bottom-left"), "nesw-resize"),
         Handle("corner", Named("bottom-right"), "nwse-resize"),
         Handle("scale", Named("top"), "ns-resize"),
         Handle("scale", Named("right"), "ew-resize"),
         Handle("scale", Named("bottom"), "ns-resize"),
         Handle("scale", Named("left"), "ew-resize"),
         Handle("rotate", Named("rotation"), "rotate") >>]

setupPerspectiveHandles(s) ==
    [s EXCEPT !.handles =
      << Handle("perspective", Named("top-left"), "crosshair"),
         Handle("perspective", Named("top-right"), "crosshair"),
         Handle("perspective", Named("bottom-left"), "crosshair"),
         Handle("perspective", Named("bottom-right"), "crosshair") >>]

divisions == 4

\* The grid position {x: i / divisions, y: j / divisions} is held as the
\* numerators i and j.
setupWarpGrid(s) ==
    [s EXCEPT !.handles =
      [n \in 1..((divisions + 1) * (divisions + 1)) |->
         Handle("warp",
                [x |-> (n - 1) \div (divisions + 1),
                 y |-> (n - 1) % (divisions + 1)],
                "move")]]

Min4(a, b, c, d) ==
    IF a = NaN \/ b = NaN \/ c = NaN \/ d = NaN THEN NaN
    ELSE CHOOSE m \in {a, b, c, d} : \A v \in {a, b, c, d} : m <= v

Max4(a, b, c, d) ==
    IF a = NaN \/ b = NaN \/ c = NaN \/ d = NaN THEN NaN
    ELSE CHOOSE m \in {a, b, c, d} : \A v \in {a, b, c, d} : m >= v

Sub(a, b) == Add(a, Neg(b))

Half(v) == IF v = NaN THEN NaN ELSE v \div 2

\* The axis-aligned box around four mapped corners.
BoundingBox(c1, c2, c3, c4) ==
    LET minX == Min4(c1[1], c2[1], c3[1], c4[1])
        maxX == Max4(c1[1], c2[1], c3[1], c4[1])
        minY == Min4(c1[2], c2[2], c3[2], c4[2])
        maxY == Max4(c1[2], c2[2], c3[2], c4[2])
    IN [x |-> minX, y |-> minY,
        width |-> Sub(maxX, minX), height |-> Sub(maxY, minY)]

MappedBounds(matrix, bounds) ==
    BoundingBox(
      mapPoint(matrix, bounds.x, bounds.y),
      mapPoint(matrix, bounds.x + bounds.width, bounds.y),
      mapPoint(matrix, bounds.x + bounds.width, bounds.y + bounds.height),
      mapPoint(matrix, bounds.x, bounds.y + bounds.height))

getTransformedBounds(s) ==
    IF s.activeTransform = Null \/ s.transformMatrix = Null
    THEN [x |-> 0, y |-> 0, width |-> 0, height |-> 0]
    ELSE MappedBounds(s.transformMatrix, s.activeTransform.bounds)

SetXY(handle, x, y) == ObjectAssign(handle, [x |-> x, y |-> y])

updateStandardHandle(handle, bounds) ==
    LET p == handle.position.name
        right == Add(bounds.x, bounds.width)
        bottom == Add(bounds.y, bounds.height)
        midX == Add(bounds.x, Half(bounds.width))
        midY == Add(bounds.y, Half(bounds.height))
    IN CASE p = "top-left" -> SetXY(handle, bounds.x, bounds.y)
         [] p = "top-right" -> SetXY(handle, right, bounds.y)
         [] p = "bottom-left" -> SetXY(handle, bounds.x, bottom)
         [] p = "bottom-right" -> SetXY(handle, right, bottom)
         [] p = "top" -> SetXY(handle, midX, bounds.y)
         [] p = "right" -> SetXY(handle, right, midY)
         [] p = "bottom" -> SetXY(handle, midX, bottom)
         [] p = "left" -> SetXY(handle, bounds.x, midY)
         [] OTHER -> handle

updateRotationHandle(handle, bounds) ==
    SetXY(handle, Add(bounds.x, Half(bounds.width)), Sub(bounds.y, 40))

updatePerspectiveHandle(handle, bounds) == handle

updateWarpHandle(handle, bounds) ==
    IF "x" \in DOMAIN handle.position
    THEN SetXY(handle,
               Add(bounds.x,
                   RoundDiv(Mul(bounds.width, handle.position.x), divisions)),
               Add(bounds.y,
                   RoundDiv(Mul(bounds.height, handle.position.y), divisions)))
    ELSE handle

updateHandle(handle, bounds) ==
    CASE handle.type \in {"corner", "scale"} ->
           updateStandardHandle(handle, bounds)
      [] handle.type = "rotate" -> updateRotationHandle(handle, bounds)
      [] handle.type = "perspective" -> updatePerspectiveHandle(handle, bounds)
      [] handle.type = "warp" -> updateWarpHandle(handle, bounds)
      [] OTHER -> handle

updateHandlesIn(s, bounds) ==
    [s EXCEPT !.handles =
       [n \in DOMAIN s.handles |-> updateHandle(s.handles[n], bounds)]]

updateHandles(s) ==
    IF s.activeTransform = Null THEN s
    ELSE updateHandlesIn(s, getTransformedBounds(s))

\* ---------------------------------------------------------------------
\* Capture, write-back and history
\* ---------------------------------------------------------------------

\* valkyrieEngine.getMainSurface() is non-null.
HasMainSurface == TRUE

DefaultBounds == [x |-> 0, y |-> 0, width |-> 100, height |-> 100]

TransformContent(image, surface, bounds) ==
    [image |-> image, surface |-> surface, bounds |-> bounds]

captureLayer(s, layerId) ==
    IF layerId \notin LayerIds THEN Null
    ELSE LET surface == LiveSurface(layerId)
         IN TransformContent(makeImageSnapshot(surface, s.pixels), surface,
                             SurfaceBounds)

\* The new surface is blank: the selection's pixels are never copied into it.
captureSelection(s, bounds, makeOk) ==
    LET selectionBounds == IF bounds # Null THEN bounds ELSE SelectionBounds
        surface == OffscreenSurface(Transparent)
    IN IF ~makeOk THEN Null
       ELSE TransformContent(makeImageSnapshot(surface, s.pixels), surface,
                             selectionBounds)

captureAllLayers(s) ==
    IF ~HasMainSurface THEN Null
    ELSE LET compositeSurface == LiveSurface("main")
         IN TransformContent(makeImageSnapshot(compositeSurface, s.pixels),
                             compositeSurface, SurfaceBounds)

captureContent(s, target, bounds, makeOk) ==
    CASE target.type = "layer" -> captureLayer(s, target.layerId)
      [] target.type = "selection" -> captureSelection(s, bounds, makeOk)
      [] target.type = "all" -> captureAllLayers(s)

calculateBounds(target) ==
    CASE target.type = "layer" -> DefaultBounds
      [] target.type = "selection" -> SelectionBounds
      [] target.type = "all" ->
           IF HasMainSurface
           THEN [DefaultBounds EXCEPT !.width = SurfaceBounds.width,
                                      !.height = SurfaceBounds.height]
           ELSE DefaultBounds

\* Only a layer target is written; the selection and all cases are empty.
\* The canvas is cleared before the argument of drawImage is evaluated.
applyToTarget(s, surface) ==
    IF s.activeTransform = Null THEN s
    ELSE
      LET target == s.activeTransform.target IN
      IF target.type = "layer" /\ target.layerId \in LayerIds
      THEN LET cleared == [s.pixels EXCEPT ![target.layerId] = Transparent]
               drawn == [cleared EXCEPT ![target.layerId] =
                            makeImageSnapshot(surface, cleared)]
           IN [s EXCEPT !.pixels = drawn]
      ELSE s

restoreOriginal(s) ==
    IF s.originalContent = Null \/ s.activeTransform = Null THEN s
    ELSE applyToTarget(s, s.originalContent.surface)

HistoryEntry(target, transform, timestamp) ==
    [target |-> target, transform |-> transform, timestamp |-> timestamp]

\* recordHistory() without the splice: entries after the index are kept.
recordHistory_KeepsRedo(s, entry) ==
    LET pushed == Append(s.transformHistory, entry)
        index == s.historyIndex + 1
    IN IF Len(pushed) > maxHistory
       THEN [s EXCEPT !.transformHistory = Tail(pushed),
                      !.historyIndex = index - 1]
       ELSE [s EXCEPT !.transformHistory = pushed, !.historyIndex = index]

\* recordHistory() that evicts with pop() instead of shift().
recordHistory_EvictsNewest(s, entry) ==
    LET spliced == IF s.historyIndex < Len(s.transformHistory) - 1
                   THEN SubSeq(s.transformHistory, 1, s.historyIndex + 1)
                   ELSE s.transformHistory
        pushed == Append(spliced, entry)
        index == s.historyIndex + 1
    IN IF Len(pushed) > maxHistory
       THEN [s EXCEPT !.transformHistory = SubSeq(pushed, 1, Len(pushed) - 1),
                      !.historyIndex = index - 1]
       ELSE [s EXCEPT !.transformHistory = pushed, !.historyIndex = index]

\* The entry at JavaScript index i is transformHistory[i + 1].
recordHistory(s, entry) ==
    LET spliced == IF s.historyIndex < Len(s.transformHistory) - 1
                   THEN SubSeq(s.transformHistory, 1, s.historyIndex + 1)
                   ELSE s.transformHistory
        pushed == Append(spliced, entry)
        index == s.historyIndex + 1
    IN IF Len(pushed) > maxHistory
       THEN [s EXCEPT !.transformHistory = Tail(pushed),
                      !.historyIndex = index - 1]
       ELSE [s EXCEPT !.transformHistory = pushed, !.historyIndex = index]

\* Both branches are empty in the code.
applyHistoryEntry(s, entry, isUndo) == s

\* cleanup() that forgets to release the captured content.
\* cleanup leaving the composed matrix in place.
cleanup_KeepsMatrix(s) ==
    [s EXCEPT !.activeTransform = Null,
              !.originalContent = Null,
              !.activeHandle = Null,
              !.isPreview = FALSE]

cleanup_KeepsContent(s) ==
    [s EXCEPT !.activeTransform = Null,
              !.transformMatrix = Null,
              !.activeHandle = Null,
              !.isPreview = FALSE]

cleanup(s) ==
    [s EXCEPT !.activeTransform = Null,
              !.transformMatrix = Null,
              !.originalContent = Null,
              !.activeHandle = Null,
              !.isPreview = FALSE]

\* ---------------------------------------------------------------------
\* Public API
\* ---------------------------------------------------------------------

\* How an operation returned: "void", "true", "false", or "throw" when it
\* raised a TypeError.
Return(s, op, ret) == [s EXCEPT !.result = [op |-> op, ret |-> ret]]

\* cancelTransform without its early return.
cancelTransform_Unguarded(s) ==
    LET s1 == IF s.originalContent # Null THEN restoreOriginal(s) ELSE s
        s2 == cleanup(s1)
    IN Return(emit(s2, "transform:cancelled", NoPayload),
              "cancelTransform", "void")

cancelTransform(s) ==
    IF s.activeTransform = Null THEN Return(s, "cancelTransform", "void")
    ELSE
      LET s1 == IF s.originalContent # Null THEN restoreOriginal(s) ELSE s
          s2 == cleanup(s1)
      IN Return(emit(s2, "transform:cancelled", NoPayload),
                "cancelTransform", "void")

\* The object literal of startTransform: it has no scaleX and no scaleY key.
InitialTransform ==
    [x |-> 0, y |-> 0, scale |-> 100, rotation |-> 0, skewX |-> 0,
     skewY |-> 0, anchorX |-> 50, anchorY |-> 50, flipX |-> FALSE,
     flipY |-> FALSE]

\* startTransform() that captures without first cancelling the active session.
startTransform_KeepsPrior(s, target, bounds, makeOk) ==
    LET s2 == [s EXCEPT !.originalContent =
                  captureContent(s, target, bounds, makeOk)]
    IN IF s2.originalContent = Null
       THEN Return(s2, "startTransform", "false")
       ELSE
         LET s3 == [s2 EXCEPT !.activeTransform =
                      [target |-> target,
                       bounds |-> IF bounds # Null THEN bounds
                                  ELSE calculateBounds(target),
                       transform |-> InitialTransform,
                       startTime |-> s2.now]]
             s4 == updateHandles(updateTransformMatrix(s3))
         IN Return(emit(s4, "transform:started", [target |-> target]),
                   "startTransform", "true")

startTransform(s, target, bounds, makeOk) ==
    LET s1 == IF s.activeTransform # Null THEN cancelTransform(s) ELSE s
        s2 == [s1 EXCEPT !.originalContent =
                  captureContent(s1, target, bounds, makeOk)]
    IN IF s2.originalContent = Null
       THEN Return(s2, "startTransform", "false")
       ELSE
         LET s3 == [s2 EXCEPT !.activeTransform =
                      [target |-> target,
                       bounds |-> IF bounds # Null THEN bounds
                                  ELSE calculateBounds(target),
                       transform |-> InitialTransform,
                       startTime |-> s2.now]]
             s4 == updateHandles(updateTransformMatrix(s3))
         IN Return(emit(s4, "transform:started", [target |-> target]),
                   "startTransform", "true")

updateTransform(s, patch, makeOk) ==
    IF s.activeTransform = Null THEN Return(s, "updateTransform", "void")
    ELSE
      LET t1 == ObjectAssign(s.activeTransform.transform, patch)
          t2 == IF s.maintainAspectRatio /\ "scale" \in DOMAIN patch
                THEN ObjectAssign(t1, [scaleX |-> patch.scale,
                                       scaleY |-> patch.scale])
                ELSE t1
          s1 == [s EXCEPT !.activeTransform.transform = t2]
          s2 == IF s1.snapEnabled THEN applySnapping(s1) ELSE s1
          s3 == updateHandles(updatePreview(updateTransformMatrix(s2), makeOk))
      IN Return(emit(s3, "transform:updated",
                     [transform |-> s3.activeTransform.transform]),
                "updateTransform", "void")

\* After cleanup() the payload expression this.activeTransform.target
\* dereferences null, which raises before emit is called.
commitTransform(s, makeOk) ==
    IF s.activeTransform = Null \/ s.originalContent = Null
    THEN Return(s, "commitTransform", "void")
    ELSE
      LET s1 == [s EXCEPT !.isPreview = FALSE]
          finalSurface ==
            applyTransform(s1, s1.originalContent, finalQuality, makeOk)
      IN IF finalSurface = Null
         THEN Return(cancelTransform(s1), "commitTransform", "void")
         ELSE
           LET s2 == applyToTarget(s1, finalSurface)
               s3 == recordHistory(
                       [s2 EXCEPT !.now = @ + 1],
                       HistoryEntry(s2.activeTransform.target,
                                    s2.activeTransform.transform,
                                    s2.now + 1))
               s4 == cleanup(s3)
           IN IF s4.activeTransform = Null
              THEN Return(s4, "commitTransform", "throw")
              ELSE Return(emit(s4, "transform:committed",
                               [target |-> s4.activeTransform.target]),
                          "commitTransform", "void")

\* undo() that stops one entry early (historyIndex <= 0).
undo_StopsAtFirst(s) ==
    IF s.historyIndex <= 0 THEN Return(s, "undo", "false")
    ELSE
      LET entry == s.transformHistory[s.historyIndex + 1]
          s1 == applyHistoryEntry(s, entry, TRUE)
      IN Return([s1 EXCEPT !.historyIndex = @ - 1], "undo", "true")

undo(s) ==
    IF s.historyIndex < 0 THEN Return(s, "undo", "false")
    ELSE
      LET entry == s.transformHistory[s.historyIndex + 1]
          s1 == applyHistoryEntry(s, entry, TRUE)
      IN Return([s1 EXCEPT !.historyIndex = @ - 1], "undo", "true")

\* redo() whose bound check is > instead of >=.
redo_OffByOne(s) ==
    IF s.historyIndex > Len(s.transformHistory) - 1
    THEN Return(s, "redo", "false")
    ELSE Return([s EXCEPT !.historyIndex = @ + 1], "redo", "true")

redo(s) ==
    IF s.historyIndex >= Len(s.transformHistory) - 1
    THEN Return(s, "redo", "false")
    ELSE
      LET s1 == [s EXCEPT !.historyIndex = @ + 1]
          entry == s1.transformHistory[s1.historyIndex + 1]
      IN Return(applyHistoryEntry(s1, entry, FALSE), "redo", "true")

\* Handle interaction

\* !v of JavaScript: NaN, undefined and 0 are falsy.
Falsy(v) == v = NaN \/ v = 0

isPointInHandle(point, handle) ==
    IF Falsy(Num(handle, "x")) \/ Falsy(Num(handle, "y")) THEN FALSE
    ELSE /\ point.x >= handle.x - handleSize \div 2
         /\ point.x <= handle.x + handleSize \div 2
         /\ point.y >= handle.y - handleSize \div 2
         /\ point.y <= handle.y + handleSize \div 2

isPointInBounds(point, bounds) ==
    /\ point.x >= bounds.x
    /\ point.x <= bounds.x + bounds.width
    /\ point.y >= bounds.y
    /\ point.y <= bounds.y + bounds.height

\* The return value is reported as the type of the returned handle.
handleTouchStart(s, point) ==
    IF s.activeTransform = Null THEN Return(s, "handleTouchStart", "null")
    ELSE
      LET hits == {n \in DOMAIN s.handles : isPointInHandle(point, s.handles[n])}
      IN IF hits # {}
         THEN LET handle == s.handles[CHOOSE n \in hits : \A m \in hits : n <= m]
              IN Return(emit([s EXCEPT !.activeHandle = handle],
                             "transform:handleSelected", [handle |-> handle]),
                        "handleTouchStart", handle.type)
         ELSE IF isPointInBounds(point, s.activeTransform.bounds)
         THEN Return([s EXCEPT !.activeHandle =
                        [type |-> "move", position |-> point,
                         cursor |-> "move"]],
                     "handleTouchStart", "move")
         ELSE Return(s, "handleTouchStart", "null")

handleTouchEnd(s) ==
    Return([s EXCEPT !.activeHandle = Null], "handleTouchEnd", "void")

\* Modes, toggles and parameter shortcuts

setMode(s, newMode) ==
    LET s1 == [s EXCEPT !.mode = newMode]
        s2 == IF s1.activeTransform = Null THEN s1
              ELSE updateHandles(
                     CASE newMode = "uniform" ->
                            [s1 EXCEPT !.maintainAspectRatio = TRUE]
                       [] newMode = "distort" ->
                            [s1 EXCEPT !.maintainAspectRatio = FALSE]
                       [] newMode = "perspective" -> setupPerspectiveHandles(s1)
                       [] newMode = "warp" -> setupWarpGrid(s1)
                       [] OTHER -> s1)
    IN Return(emit(s2, "transform:modeChanged", [mode |-> newMode]),
              "setMode", "void")

\* (a + b) / 2
Average(a, b) == Half(Add(a, b))

toggleAspectRatio(s, makeOk) ==
    LET s1 == [s EXCEPT !.maintainAspectRatio = ~@]
    IN IF s1.activeTransform # Null /\ s1.maintainAspectRatio
       THEN LET avgScale == Average(Num(s1.activeTransform.transform, "scaleX"),
                                    Num(s1.activeTransform.transform, "scaleY"))
            IN Return(updateTransform(s1, [scaleX |-> avgScale,
                                           scaleY |-> avgScale], makeOk),
                      "toggleAspectRatio", "void")
       ELSE Return(s1, "toggleAspectRatio", "void")

\* The matrix and the handles are not recomputed here.
toggleSnapping(s, makeOk) ==
    LET s1 == [s EXCEPT !.snapEnabled = ~@]
    IN IF s1.snapEnabled /\ s1.activeTransform # Null
       THEN Return(updatePreview(applySnapping(s1), makeOk),
                   "toggleSnapping", "void")
       ELSE Return(s1, "toggleSnapping", "void")

flip(s, axis, makeOk) ==
    IF s.activeTransform = Null THEN Return(s, "flip", "void")
    ELSE IF axis = "horizontal"
    THEN Return(updateTransform(
                  s, [flipX |-> ~s.activeTransform.transform.flipX], makeOk),
                "flip", "void")
    ELSE Return(updateTransform(
                  s, [flipY |-> ~s.activeTransform.transform.flipY], makeOk),
                "flip", "void")

\* degrees * PI / 180 radians is degrees * 10 tenths of a degree.
rotate(s, degrees, makeOk) ==
    IF s.activeTransform = Null THEN Return(s, "rotate", "void")
    ELSE LET radians == degrees * 10
         IN Return(updateTransform(
                     s, [rotation |->
                           Add(Num(s.activeTransform.transform, "rotation"),
                               radians)], makeOk),
                   "rotate", "void")

\* The reset literal without its rotation key.
ResetPatch_KeepsRotation ==
    [x |-> 0, y |-> 0, scale |-> 100, scaleX |-> 100, scaleY |-> 100,
     skewX |-> 0, skewY |-> 0, flipX |-> FALSE, flipY |-> FALSE]

ResetPatch ==
    [x |-> 0, y |-> 0, scale |-> 100, scaleX |-> 100, scaleY |-> 100,
     rotation |-> 0, skewX |-> 0, skewY |-> 0, flipX |-> FALSE,
     flipY |-> FALSE]

reset(s, makeOk) ==
    IF s.activeTransform = Null THEN Return(s, "reset", "void")
    ELSE Return(updateTransform(s, ResetPatch, makeOk), "reset", "void")

\* ---------------------------------------------------------------------
\* Specification: sessions and target content
\* ---------------------------------------------------------------------

\* State after the constructor, which calls setupHandles().
\* ---------------------------------------------------------------------
\* The pencil handler after construction.  Pressures, curve points and
\* settings are in thousandths (1000 is 1.0); times are in milliseconds.
\* ---------------------------------------------------------------------

InitialSettings ==
    [pressureSensitivity |-> 1000, tiltSensitivity |-> 1000,
     velocitySensitivity |-> 500, smoothing |-> 500, palmRejection |-> TRUE,
     predictiveTouch |-> TRUE]

\* activeTouches is the Map as the sequence of its values in insertion
\* order; palmTouches is the Set.
InitialHandler ==
    [activeTouches |-> <<>>, pencilTouch |-> Null, palmTouches |-> {},
     pressureCurve |-> [kind |-> "quadratic"], pressureSmoothing |-> 300,
     lastPressure |-> 0, tiltSensitivity |-> 1000, tiltThreshold |-> 100,
     palmRejectionEnabled |-> TRUE, palmRejectionRadius |-> 100,
     palmRejectionDelay |-> 50, palmRejectionThreshold |-> 20,
     activeGesture |-> Null, predictionEnabled |-> TRUE,
     predictionFrames |-> 3, touchEventBuffer |-> <<>>,
     processingTouches |-> FALSE, settings |-> InitialSettings]

InitPencil ==
    /\ applePencilHandler = InitialHandler
    /\ clock = 1000
    /\ pencilEmitted = <<>>
    /\ touchResult = Null
    /\ pencilCall = [op |-> "constructor"]
    /\ pencilLog = <<>>
    /\ contacts = <<>>

InitialState ==
    setupHandles(
      [activeTransform |-> Null, transformMatrix |-> Null,
       originalContent |-> Null, mode |-> "free",
       interpolation |-> "bilinear", maintainAspectRatio |-> TRUE,
       snapEnabled |-> TRUE, handles |-> <<>>, activeHandle |-> Null,
       transformHistory |-> <<>>, historyIndex |-> -1, isPreview |-> FALSE,
       pixels |-> [c \in Cells |-> Picture(c)], now |-> 0,
       emitted |-> <<>>, result |-> [op |-> "constructor", ret |-> "void"]])

Init ==
    /\ activeTransform = InitialState.activeTransform
    /\ transformMatrix = InitialState.transformMatrix
    /\ originalContent = InitialState.originalContent
    /\ mode = InitialState.mode
    /\ interpolation = InitialState.interpolation
    /\ maintainAspectRatio = InitialState.maintainAspectRatio
    /\ snapEnabled = InitialState.snapEnabled
    /\ handles = InitialState.handles
    /\ activeHandle = InitialState.activeHandle
    /\ transformHistory = InitialState.transformHistory
    /\ historyIndex = InitialState.historyIndex
    /\ isPreview = InitialState.isPreview
    /\ pixels = InitialState.pixels
    /\ now = InitialState.now
    /\ emitted = InitialState.emitted
    /\ result = InitialState.result
    /\ call = [op |-> "constructor"]
    /\ sessionStart = Null
    /\ lastCommit = Null
    /\ undos = 0
    /\ InitPencil

\* The state an operation starts from: nothing emitted yet.
Entry == [State EXCEPT !.emitted = <<>>]

\* The call rendered its final surface and went on to write and record.
Rendered(c) ==
    /\ c.op = "commitTransform"
    /\ activeTransform # Null
    /\ originalContent # Null
    /\ c.makeOk

\* The variables take the values of the state s reached by the call c.
Becomes(s, c) ==
    /\ activeTransform' = s.activeTransform
    /\ transformMatrix' = s.transformMatrix
    /\ originalContent' = s.originalContent
    /\ mode' = s.mode
    /\ interpolation' = s.interpolation
    /\ maintainAspectRatio' = s.maintainAspectRatio
    /\ snapEnabled' = s.snapEnabled
    /\ handles' = s.handles
    /\ activeHandle' = s.activeHandle
    /\ transformHistory' = s.transformHistory
    /\ historyIndex' = s.historyIndex
    /\ isPreview' = s.isPreview
    /\ pixels' = s.pixels
    /\ now' = s.now
    /\ emitted' = s.emitted
    /\ result' = s.result
    /\ call' = c
    /\ sessionStart' = IF s.activeTransform = Null THEN Null
                       ELSE IF c.op = "startTransform" THEN s.pixels
                       ELSE sessionStart
    /\ lastCommit' =
         IF Rendered(c)
         THEN LET cell == TargetCell(activeTransform.target)
              IN [cell |-> cell, before |-> sessionStart[cell],
                  after |-> s.pixels[cell]]
         ELSE IF c.op \in {"undo", "redo"} THEN lastCommit
         ELSE Null
    /\ UNCHANGED pencilVars

\* Inputs
ExplicitBounds == [x |-> 20, y |-> 20, width |-> 40, height |-> 40]

\* Surface.Make is consulted by startTransform for a selection only, and
\* explicit bounds reach the capture for a selection only.
StartInputs ==
    {[op |-> "startTransform", target |-> t, bounds |-> Null, makeOk |-> TRUE] :
        t \in Targets}
    \cup {[op |-> "startTransform", target |-> SelectionTarget,
           bounds |-> b, makeOk |-> ok] :
            b \in {Null, ExplicitBounds}, ok \in BOOLEAN}

Patches == {[x |-> 10, rotation |-> 445, scale |-> 200]}

Points == {[x |-> 30, y |-> 30], [x |-> 200, y |-> 200]}

StartTransform ==
    \E c \in StartInputs :
        /\ Becomes(startTransform(Entry, c.target, c.bounds, c.makeOk), c)
        /\ UNCHANGED undos

UpdateTransform ==
    \E patch \in Patches, makeOk \in BOOLEAN :
        /\ Becomes(updateTransform(Entry, patch, makeOk),
                   [op |-> "updateTransform", patch |-> patch,
                    makeOk |-> makeOk])
        /\ UNCHANGED undos

CommitTransform ==
    /\ now < MaxRecorded
    /\ \E makeOk \in BOOLEAN :
         Becomes(commitTransform(Entry, makeOk),
                 [op |-> "commitTransform", makeOk |-> makeOk])
    /\ UNCHANGED undos

CancelTransform ==
    /\ Becomes(cancelTransform(Entry), [op |-> "cancelTransform"])
    /\ UNCHANGED undos

HandleTouchStart ==
    \E point \in Points :
        /\ Becomes(handleTouchStart(Entry, point),
                   [op |-> "handleTouchStart", point |-> point])
        /\ UNCHANGED undos

HandleTouchEnd ==
    /\ Becomes(handleTouchEnd(Entry), [op |-> "handleTouchEnd"])
    /\ UNCHANGED undos

Next ==
    \/ StartTransform
    \/ UpdateTransform
    \/ CommitTransform
    \/ CancelTransform
    \/ HandleTouchStart
    \/ HandleTouchEnd

Spec == Init /\ [][Next]_vars

\* ---------------------------------------------------------------------
\* Specification: undo, redo and a long history.  One target and no
\* parameter updates, so that more than maxHistory entries are recorded.
\* ---------------------------------------------------------------------

HistoryTarget == LayerTarget("L1")

HistoryStart ==
    /\ Becomes(startTransform(Entry, HistoryTarget, Null, TRUE),
               [op |-> "startTransform", target |-> HistoryTarget,
                bounds |-> Null, makeOk |-> TRUE])
    /\ UNCHANGED undos

HistoryCommit ==
    /\ now < MaxHistoryRecorded
    /\ \E makeOk \in BOOLEAN :
         Becomes(commitTransform(Entry, makeOk),
                 [op |-> "commitTransform", makeOk |-> makeOk])
    /\ UNCHANGED undos

HistoryUndo ==
    /\ undos < MaxHistoryUndos
    /\ Becomes(undo(Entry), [op |-> "undo"])
    /\ undos' = IF historyIndex >= 0 THEN undos + 1 ELSE undos

HistoryRedo ==
    /\ Becomes(redo(Entry), [op |-> "redo"])
    /\ UNCHANGED undos

NextHistory ==
    \/ HistoryStart
    \/ HistoryCommit
    \/ HistoryUndo
    \/ HistoryRedo

SpecHistory == Init /\ [][NextHistory]_vars

\* ---------------------------------------------------------------------
\* Claims
\* ---------------------------------------------------------------------

Cancelled == [name |-> "transform:cancelled", payload |-> NoPayload]

Started(target) ==
    [name |-> "transform:started", payload |-> [target |-> target]]

Committed(target) ==
    [name |-> "transform:committed", payload |-> [target |-> target]]

Names(events) == {events[n].name : n \in DOMAIN events}

\* C1: after cancelTransform on an active session the target's content is
\* the content it had when the session started, for every target kind; a
\* layer target is not left cleared.
C1_CancelRestoresTarget ==
    [][(call'.op = "cancelTransform" /\ activeTransform # Null)
         => LET cell == TargetCell(activeTransform.target)
            IN pixels'[cell] = sessionStart[cell]]_vars

\* C2: a commitTransform on an active session whose final render succeeds
\* returns normally and emits exactly one transform:committed event that
\* carries the session's target.
C2_CommitEmitsCommitted ==
    [][Rendered(call')
         => /\ result'.ret = "void"
            /\ emitted' = <<Committed(activeTransform.target)>>]_vars

\* C3: a commitTransform whose final render succeeds appends exactly one
\* HistoryEntry, holding the session's target and a copy of its final
\* parameters, after the entries up to the index (less an evicted oldest
\* one), releases the captured content and leaves the engine Idle.
C3_CommitRecordsAndIdles ==
    [][Rendered(call')
         => LET n == Len(transformHistory') IN
            /\ n >= 1
            /\ transformHistory'[n].target = activeTransform.target
            /\ transformHistory'[n].transform = activeTransform.transform
            /\ historyIndex' = n - 1
            /\ \E k \in {1, 2} :
                 SubSeq(transformHistory', 1, n - 1)
                   = SubSeq(transformHistory, k, historyIndex + 1)
            /\ originalContent' = Null
            /\ activeTransform' = Null
            /\ transformMatrix' = Null
            /\ activeHandle' = Null]_vars

\* A commit with a successful render has returned, after an update changed
\* the parameters: the newest entry holds the updated parameters.
C3_Witness ==
    /\ call.op = "commitTransform"
    /\ call.makeOk
    /\ result.ret # "void"
    /\ Len(transformHistory) = 2
    /\ transformHistory[2].timestamp = now
    /\ transformHistory[2].transform # InitialTransform
    /\ transformHistory[2].target = SelectionTarget
    /\ activeTransform = Null

\* C4: for every target kind a successful commitTransform replaces the
\* target's content with the rendered image.
C4_CommitWritesTarget ==
    [][Rendered(call')
         => pixels'[TargetCell(activeTransform.target)]
              = Render(originalContent.image, transformMatrix, finalQuality,
                       interpolation)]_vars

\* C5: after a committed transform a successful undo() restores the
\* target's content to what it was before the session, and a following
\* successful redo() makes the target hold the transformed content again.
C5_UndoRestoresRedoReapplies ==
    /\ (/\ lastCommit # Null
        /\ call.op = "undo"
        /\ result.ret = "true"
        /\ historyIndex = Len(transformHistory) - 2)
         => pixels[lastCommit.cell] = lastCommit.before
    /\ (/\ lastCommit # Null
        /\ call.op = "redo"
        /\ result.ret = "true"
        /\ historyIndex = Len(transformHistory) - 1)
         => pixels[lastCommit.cell] = lastCommit.after

\* C6: a startTransform issued while a session is active first cancels the
\* prior session, restoring the prior target and emitting
\* transform:cancelled, and only then captures the new target and emits
\* transform:started; nothing of the prior session is carried over.
C6_StartCancelsPrior ==
    [][(call'.op = "startTransform" /\ activeTransform # Null)
         => LET prior == TargetCell(activeTransform.target) IN
            /\ pixels'[prior] = sessionStart[prior]
            /\ Len(emitted') >= 1
            /\ emitted'[1] = Cancelled
            /\ result'.ret = "true"
                 => /\ emitted' = <<Cancelled, Started(call'.target)>>
                    /\ activeTransform'.target = call'.target
                    /\ activeTransform'.transform = InitialTransform
                    /\ originalContent'
                         = captureContent([pixels |-> pixels'], call'.target,
                                          call'.bounds, call'.makeOk)]_vars

\* The capture of the last startTransform call failed.
CaptureFailed ==
    /\ call.op = "startTransform"
    /\ captureContent(State, call.target, call.bounds, call.makeOk) = Null

\* C7: if content capture fails in startTransform, the call returns false,
\* emits no transform:started and leaves the engine Idle, whether or not a
\* session was active before the call.
C7_FailedCaptureLeavesIdle ==
    CaptureFailed
      => /\ result.ret = "false"
         /\ "transform:started" \notin Names(emitted)
         /\ activeTransform = Null
         /\ originalContent = Null
         /\ transformMatrix = Null

\* A capture failed in a call that first cancelled an active session.
C7_Witness ==
    /\ CaptureFailed
    /\ call.target = LayerTarget(MissingLayerId)
    /\ emitted = <<Cancelled>>

\* C8: right after a successful startTransform the parameters are the
\* identity (position 0, scaleX and scaleY 1, rotation 0, skew 0, anchor
\* 0.5, no flip) and the composed matrix is the identity transform.
C8_StartIsIdentity ==
    (call.op = "startTransform" /\ result.ret = "true")
      => LET t == activeTransform.transform IN
         /\ Num(t, "x") = 0
         /\ Num(t, "y") = 0
         /\ Num(t, "scaleX") = 100
         /\ Num(t, "scaleY") = 100
         /\ Num(t, "rotation") = 0
         /\ Num(t, "skewX") = 0
         /\ Num(t, "skewY") = 0
         /\ Num(t, "anchorX") = 50
         /\ Num(t, "anchorY") = 50
         /\ ~t.flipX
         /\ ~t.flipY
         /\ IsIdentityMatrix(transformMatrix)

\* C9: if the final render fails during commitTransform the outcome is
\* that of cancelTransform: no entry appended, index unchanged, the target
\* in its pre-session state, the content released, the engine Idle, and
\* transform:cancelled (not transform:committed) emitted.
C9_FailedRenderIsCancel ==
    [][(/\ call'.op = "commitTransform"
        /\ activeTransform # Null
        /\ originalContent # Null
        /\ ~call'.makeOk)
         => LET cell == TargetCell(activeTransform.target) IN
            /\ transformHistory' = transformHistory
            /\ historyIndex' = historyIndex
            /\ pixels'[cell] = sessionStart[cell]
            /\ originalContent' = Null
            /\ activeTransform' = Null
            /\ transformMatrix' = Null
            /\ activeHandle' = Null
            /\ emitted' = <<Cancelled>>]_vars

\* C10: the history holds at most maxHistory entries and
\* -1 <= historyIndex <= length - 1; once more than maxHistory entries have
\* been recorded with no undo, the list is exactly the maxHistory most
\* recently recorded entries in recording order.
C10_HistoryBounded ==
    /\ Len(transformHistory) <= maxHistory
    /\ -1 <= historyIndex
    /\ historyIndex <= Len(transformHistory) - 1
    /\ (undos = 0 /\ now > maxHistory)
         => /\ Len(transformHistory) = maxHistory
            /\ \A i \in 1..maxHistory :
                 transformHistory[i].timestamp = now - maxHistory + i

\* Two entries more than the capacity were recorded, with no undo.
C10_Witness ==
    /\ now = maxHistory + 2
    /\ undos = 0
    /\ Len(transformHistory) = maxHistory
    /\ transformHistory[1].timestamp = 3

\* ---------------------------------------------------------------------
\* Specification: consecutive commits from an empty history, then undo()
\* calls only.  undos counts the successful ones.
\* ---------------------------------------------------------------------

RewindStart ==
    /\ Becomes(startTransform(Entry, HistoryTarget, Null, TRUE),
               [op |-> "startTransform", target |-> HistoryTarget,
                bounds |-> Null, makeOk |-> TRUE])
    /\ UNCHANGED undos

RewindCommit ==
    /\ now < MaxRewindRecorded
    /\ undos = 0
    /\ Becomes(commitTransform(Entry, TRUE),
               [op |-> "commitTransform", makeOk |-> TRUE])
    /\ UNCHANGED undos

RewindUndo ==
    /\ Becomes(undo(Entry), [op |-> "undo"])
    /\ undos' = IF result'.ret = "true" THEN undos + 1 ELSE undos

NextRewind ==
    \/ RewindStart
    \/ RewindCommit
    \/ RewindUndo

SpecRewind == Init /\ [][NextRewind]_vars

Min(a, b) == IF a <= b THEN a ELSE b

\* C11: after k consecutive successful commits from an empty history,
\* repeated undo() calls succeed exactly min(k, maxHistory) times and every
\* later undo() returns failure.
C11_UndoCount ==
    /\ undos <= Min(now, maxHistory)
    /\ (call.op = "undo" /\ result.ret = "false")
         => undos = Min(now, maxHistory)
    /\ (call.op = "undo" /\ result.ret = "true") => undos >= 1

\* maxHistory + 2 commits, maxHistory successful undo() calls, then a failure.
C11_Witness ==
    /\ now = maxHistory + 2
    /\ undos = maxHistory
    /\ call.op = "undo"
    /\ result.ret = "false"

\* C12: recording an entry when the index is not at the last entry
\* discards every entry after the index before appending, so that right
\* after any commit the index points at the newest entry and redo() fails.
C12_RecordDiscardsRedo ==
    [][/\ Rendered(call')
            => LET n == Len(transformHistory') IN
               /\ historyIndex' = n - 1
               /\ n <= historyIndex + 2
               /\ transformHistory'[n].timestamp = now'
               /\ \A i \in 1..(n - 1) :
                    \E j \in 1..(historyIndex + 1) :
                        transformHistory'[i] = transformHistory[j]
       /\ (call.op = "commitTransform" /\ lastCommit # Null
             /\ call'.op = "redo")
            => /\ result'.ret = "false"
               /\ historyIndex' = historyIndex]_vars

\* A commit after an undo dropped the undone entry, and the redo() that
\* followed failed.
C12_Witness ==
    /\ call.op = "redo"
    /\ result.ret = "false"
    /\ undos = 1
    /\ lastCommit # Null
    /\ Len(transformHistory) = 2
    /\ now = 3
    /\ transformHistory[2].timestamp = 3
    /\ historyIndex = 1

\* What undo() and redo() leave alone when they fail.
HistoryFrame ==
    UNCHANGED <<transformHistory, historyIndex, pixels, activeTransform,
                transformMatrix, originalContent, handles, activeHandle,
                mode, maintainAspectRatio, snapEnabled>>

\* C13: undo() with historyIndex < 0 and redo() with historyIndex >=
\* length - 1 return failure and leave the history, the index, the target
\* content and any active session unchanged.
C13_OutOfBoundsIsNoOp ==
    [][/\ (call'.op = "undo" /\ historyIndex < 0)
            => (result'.ret = "false" /\ HistoryFrame)
       /\ (call'.op = "redo" /\ historyIndex >= Len(transformHistory) - 1)
            => (result'.ret = "false" /\ HistoryFrame)]_vars

\* redo() failed at the newest entry while a session was active.
C13_Witness ==
    /\ call.op = "redo"
    /\ result.ret = "false"
    /\ activeTransform # Null
    /\ Len(transformHistory) >= 1
    /\ historyIndex = Len(transformHistory) - 1

\* ---------------------------------------------------------------------
\* Specification: parameter operations on one session target in free mode.
\* commitTransform is called with no active session only; commits of a
\* session are explored by Spec.
\* ---------------------------------------------------------------------

ParamsTarget == LayerTarget("L1")

ParamsPatches ==
    {[x |-> 10, rotation |-> 445],
     [x |-> 14, y |-> -5, rotation |-> 400],
     [scale |-> 200],
     [skewX |-> 50]}

RotateInputs == {90}

ParamsStart ==
    /\ Becomes(startTransform(Entry, ParamsTarget, Null, TRUE),
               [op |-> "startTransform", target |-> ParamsTarget,
                bounds |-> Null, makeOk |-> TRUE])
    /\ UNCHANGED undos

ParamsUpdate ==
    \E patch \in ParamsPatches, makeOk \in BOOLEAN :
        /\ Becomes(updateTransform(Entry, patch, makeOk),
                   [op |-> "updateTransform", patch |-> patch,
                    makeOk |-> makeOk])
        /\ UNCHANGED undos

ParamsCommit ==
    /\ activeTransform = Null
    /\ Becomes(commitTransform(Entry, TRUE),
               [op |-> "commitTransform", makeOk |-> TRUE])
    /\ UNCHANGED undos

ParamsCancel ==
    /\ Becomes(cancelTransform(Entry), [op |-> "cancelTransform"])
    /\ UNCHANGED undos

Flip ==
    \E axis \in {"horizontal", "vertical"} :
        /\ Becomes(flip(Entry, axis, TRUE), [op |-> "flip", axis |-> axis])
        /\ UNCHANGED undos

Rotate ==
    \E degrees \in RotateInputs :
        /\ activeTransform # Null
             => Num(activeTransform.transform, "rotation") < MaxRotation
        /\ Becomes(rotate(Entry, degrees, TRUE),
                   [op |-> "rotate", degrees |-> degrees])
        /\ UNCHANGED undos

Reset ==
    /\ Becomes(reset(Entry, TRUE), [op |-> "reset"])
    /\ UNCHANGED undos

ToggleAspectRatio ==
    /\ Becomes(toggleAspectRatio(Entry, TRUE), [op |-> "toggleAspectRatio"])
    /\ UNCHANGED undos

ToggleSnapping ==
    /\ Becomes(toggleSnapping(Entry, TRUE), [op |-> "toggleSnapping"])
    /\ UNCHANGED undos

NextParams ==
    \/ ParamsStart
    \/ ParamsUpdate
    \/ ParamsCommit
    \/ ParamsCancel
    \/ Flip
    \/ Rotate
    \/ Reset
    \/ ToggleAspectRatio
    \/ ToggleSnapping

SpecParams == Init /\ [][NextParams]_vars

\* ---------------------------------------------------------------------
\* Claims on parameter operations
\* ---------------------------------------------------------------------

SessionOps ==
    {"updateTransform", "commitTransform", "cancelTransform", "flip",
     "rotate", "reset"}

EngineFrame ==
    UNCHANGED <<activeTransform, transformMatrix, originalContent, mode,
                interpolation, maintainAspectRatio, snapEnabled, handles,
                activeHandle, transformHistory, historyIndex, isPreview,
                pixels, now>>

\* C14: with no active session, updateTransform, commitTransform,
\* cancelTransform, flip, rotate and reset return normally, emit no event
\* and leave the history, the target content, the handles and every other
\* field of the engine unchanged.
C14_IdleCallsAreNoOps ==
    [][(activeTransform = Null /\ call'.op \in SessionOps)
         => (result'.ret = "void" /\ emitted' = <<>> /\ EngineFrame)]_vars

\* reset() was called after a session was cancelled.
C14_Witness ==
    /\ call.op = "reset"
    /\ activeTransform = Null
    /\ pixels["L1"] = Transparent
    /\ emitted = <<>>

\* ---------------------------------------------------------------------
\* Specification: mode changes, with the parameter operations of SpecParams
\* over one update patch, one flip axis and perfect rendering.
\* ---------------------------------------------------------------------

Modes == {"free", "uniform", "distort", "perspective", "warp"}

ModePatches == {[x |-> 14, rotation |-> 400, scale |-> 200]}

SetMode ==
    \E newMode \in Modes :
        /\ Becomes(setMode(Entry, newMode),
                   [op |-> "setMode", mode |-> newMode])
        /\ UNCHANGED undos

ModeUpdate ==
    \E patch \in ModePatches :
        /\ Becomes(updateTransform(Entry, patch, TRUE),
                   [op |-> "updateTransform", patch |-> patch,
                    makeOk |-> TRUE])
        /\ UNCHANGED undos

ModeFlip ==
    /\ Becomes(flip(Entry, "horizontal", TRUE),
               [op |-> "flip", axis |-> "horizontal"])
    /\ UNCHANGED undos

NextMode ==
    \/ ParamsStart
    \/ SetMode
    \/ ModeUpdate
    \/ ModeFlip
    \/ Rotate
    \/ Reset
    \/ ToggleAspectRatio
    \/ ToggleSnapping
    \/ ParamsCancel

SpecMode == Init /\ [][NextMode]_vars

\* C15: in an active session, after reset() the parameters are scaleX =
\* scaleY = 1, rotation 0, position (0,0), skew 0 and no flip, and the
\* composed matrix is the identity, whatever the mode, the aspect lock, the
\* snapping switch and the calls made before.
C15_ResetIsIdentity ==
    (call.op = "reset" /\ activeTransform # Null)
      => LET t == activeTransform.transform IN
         /\ Num(t, "scaleX") = 100
         /\ Num(t, "scaleY") = 100
         /\ Num(t, "rotation") = 0
         /\ Num(t, "x") = 0
         /\ Num(t, "y") = 0
         /\ Num(t, "skewX") = 0
         /\ Num(t, "skewY") = 0
         /\ ~t.flipX
         /\ ~t.flipY
         /\ IsIdentityMatrix(transformMatrix)

\* reset() ran in warp mode with the aspect lock and snapping switched off.
C15_Witness ==
    /\ call.op = "reset"
    /\ activeTransform # Null
    /\ mode = "warp"
    /\ ~maintainAspectRatio
    /\ ~snapEnabled
    /\ IsIdentityMatrix(transformMatrix)

\* ---------------------------------------------------------------------
\* Specification: the snap pass on its own.  The initial states are those of
\* updateTransform after Object.assign, before the snap pass, in a session
\* over the default bounds of layer L1.
\* ---------------------------------------------------------------------

SnapRotations == {-449, 0, 400, 449, 451, 500, 675}

SnapScalesX == {NaN, 96, 100, 104, 105, 147, 297}

SnapScalesY == {100, 204}

SnapXs == {-5, 4, 5, 10}

SnapYs == {0, 15}

SnapInputs ==
    {[rotation |-> r, scaleX |-> sx, scaleY |-> sy, x |-> px, y |-> py] :
       r \in SnapRotations, sx \in SnapScalesX, sy \in SnapScalesY,
       px \in SnapXs, py \in SnapYs}

Assigned(patch) ==
    LET s == startTransform(InitialState, ParamsTarget, Null, TRUE)
    IN [s EXCEPT !.activeTransform.transform = ObjectAssign(@, patch),
                 !.emitted = <<>>]

\* The engine's fields hold the state s; the session began from its pixels.
InitAt(s, c) ==
    /\ activeTransform = s.activeTransform
    /\ transformMatrix = s.transformMatrix
    /\ originalContent = s.originalContent
    /\ mode = s.mode
    /\ interpolation = s.interpolation
    /\ maintainAspectRatio = s.maintainAspectRatio
    /\ snapEnabled = s.snapEnabled
    /\ handles = s.handles
    /\ activeHandle = s.activeHandle
    /\ transformHistory = s.transformHistory
    /\ historyIndex = s.historyIndex
    /\ isPreview = s.isPreview
    /\ pixels = s.pixels
    /\ now = s.now
    /\ emitted = s.emitted
    /\ result = s.result
    /\ call = c
    /\ sessionStart = s.pixels
    /\ lastCommit = Null
    /\ undos = 0
    /\ InitPencil

InitSnap ==
    \E patch \in SnapInputs :
        InitAt(Assigned(patch), [op |-> "assign", patch |-> patch])

SnapPass ==
    /\ Becomes(applySnapping(Entry), [op |-> "applySnapping"])
    /\ UNCHANGED undos

NextSnap == SnapPass

SpecSnap == InitSnap /\ [][NextSnap]_vars

\* C16: for every parameter set the snap pass applied twice gives the
\* parameters it gives applied once.
C16_SnapIdempotent ==
    LET once == applySnapping(State)
    IN applySnapping(once) = once

\* The pass has run and snapped the rotation, a scale and the position.
C16_Witness ==
    /\ call.op = "applySnapping"
    /\ activeTransform.transform.rotation = 450
    /\ activeTransform.transform.scaleX = 150
    /\ activeTransform.transform.scaleY = 200
    /\ activeTransform.transform.x = 10
    /\ activeTransform.transform.y = 20

\* The multiples of 45 degrees, in tenths of a degree, around the rotations
\* of SpecParams.
Multiples45 == {45 * 10 * k : k \in -8..8}

NearestMultiple45(r) ==
    CHOOSE m \in Multiples45 :
        \A n \in Multiples45 : Abs(r - m) <= Abs(r - n)

\* C17: with snapping enabled, after updateTransform supplying rotation r
\* the session rotation is the nearest multiple of 45 degrees when r is
\* less than 5 degrees from it and r otherwise, and x and y are multiples of
\* 10 nearest to their values; update {x: 10, rotation: 44.5 degrees} gives
\* rotation 45 degrees and x = 10.
C17_UpdateSnaps ==
    (call.op = "updateTransform" /\ activeTransform # Null /\ snapEnabled)
      => LET t == activeTransform.transform
             patch == call.patch
         IN /\ "rotation" \in DOMAIN patch
                 => LET r == patch.rotation
                        m == NearestMultiple45(r)
                    IN t.rotation = IF Abs(r - m) < 5 * 10 THEN m ELSE r
            /\ t.x % 10 = 0
            /\ t.y % 10 = 0
            /\ "x" \in DOMAIN patch => Abs(t.x - patch.x) * 2 <= 10
            /\ "y" \in DOMAIN patch => Abs(t.y - patch.y) * 2 <= 10
            /\ patch = [x |-> 10, rotation |-> 445]
                 => (t.rotation = 450 /\ t.x = 10)

\* The update of the example ran in free mode over the 100x100 bounds.
C17_Witness ==
    /\ call.op = "updateTransform"
    /\ call.patch = [x |-> 10, rotation |-> 445]
    /\ activeTransform # Null
    /\ snapEnabled
    /\ mode = "free"
    /\ activeTransform.bounds.width = 100
    /\ activeTransform.bounds.height = 100
    /\ activeTransform.transform.rotation = 450
    /\ activeTransform.transform.x = 10

\* ---------------------------------------------------------------------
\* Claims on modes
\* ---------------------------------------------------------------------

HandleCount(type) ==
    Cardinality({n \in DOMAIN handles : handles[n].type = type})

\* C18: whenever a session is active the handle set is the layout of the
\* current mode: 4 corner, 4 edge-scale and 1 rotate handle for free, uniform
\* and distort; 4 perspective handles for perspective; 25 warp handles for
\* warp.
C18_HandlesFollowMode ==
    activeTransform # Null
      => CASE mode = "perspective" ->
                Len(handles) = 4 /\ HandleCount("perspective") = 4
           [] mode = "warp" ->
                Len(handles) = 25 /\ HandleCount("warp") = 25
           [] OTHER ->
                /\ Len(handles) = 9
                /\ HandleCount("corner") = 4
                /\ HandleCount("scale") = 4
                /\ HandleCount("rotate") = 1

\* C19: after setMode('uniform') the aspect-ratio lock is on and after
\* setMode('distort') it is off, with or without an active session.
C19_ModeSetsAspectLock ==
    /\ (call.op = "setMode" /\ call.mode = "uniform") => maintainAspectRatio
    /\ (call.op = "setMode" /\ call.mode = "distort") => ~maintainAspectRatio

\* ---------------------------------------------------------------------
\* Claims on ownership of the captured content
\* ---------------------------------------------------------------------

\* C20: after every public operation the captured original content is
\* present exactly when a session is active, and exactly when a composed
\* matrix is present; commit and cancel release it on every path.
C20_ContentIffSession ==
    /\ (originalContent # Null) <=> (activeTransform # Null)
    /\ (activeTransform # Null) <=> (transformMatrix # Null)
    /\ (call.op \in {"commitTransform", "cancelTransform"})
         => originalContent = Null

\* A commit whose final render failed went down the cancel path and
\* released the content.
C20_Witness ==
    /\ call.op = "commitTransform"
    /\ ~call.makeOk
    /\ Cancelled \in {emitted[n] : n \in DOMAIN emitted}
    /\ originalContent = Null
    /\ activeTransform = Null
    /\ transformMatrix = Null

\* =====================================================================
\* ApplePencilHandler
\* =====================================================================

\* A method of the handler is an operator on the handler's fields together
\* with the events emitted so far, the time and the value returned.
HandlerFields == DOMAIN InitialHandler

\* Beside the fields, emitted, now and ret: thrown is set once an exception
\* is on its way out, onEmit holds the events a subscriber of the event bus
\* will submit, one at each event it receives, and log is the history of the
\* call.
PencilEntry ==
    [k \in HandlerFields
            \cup {"emitted", "now", "ret", "thrown", "onEmit", "log"} |->
       CASE k = "emitted" -> <<>>
         [] k = "now" -> clock
         [] k = "ret" -> Null
         [] k = "thrown" -> FALSE
         [] k = "onEmit" -> <<>>
         [] k = "log" -> <<>>
         [] OTHER -> applePencilHandler[k]]

Throw(s) == [s EXCEPT !.thrown = TRUE]

Logged(s, step, event) ==
    [s EXCEPT !.log = Append(@, [step |-> step, event |-> event])]

Returning(s, value) == [s EXCEPT !.ret = value]

RECURSIVE processTouchEvent(_, _)

\* What a re-entrant call left behind: its return value is the
\* subscriber's, and the history notes whether it changed a field other
\* than the buffer.
Reentered(before, after, event) ==
    [after EXCEPT
       !.ret = before.ret,
       !.log = Append(@, [step |-> "submitted", event |-> event,
                          quiet |-> \A k \in HandlerFields \ {"touchEventBuffer"} :
                                      after[k] = before[k]])]

\* The subscriber runs inside emit and may call processTouchEvent.
Notify(s) ==
    IF s.onEmit = <<>> THEN s
    ELSE Reentered(s,
                   processTouchEvent([s EXCEPT !.onEmit = Tail(@)],
                                     Head(s.onEmit)),
                   Head(s.onEmit))

pencilEmit(s, name, payload) ==
    Notify([s EXCEPT !.emitted = Append(@, [name |-> name,
                                             payload |-> payload])])

\* a || b for numbers: undefined, NaN and 0 are falsy.
Or(a, b) == IF a = NaN \/ a = 0 THEN b ELSE a

\* Rounded product and power of two numbers in thousandths.
MulMilli(a, b) == RoundDiv(a * b, 1000)

PowMilli(base, exponent) ==
    CASE exponent = 0 -> 1000
      [] exponent = 1000 -> base
      [] exponent = 2000 -> MulMilli(base, base)
      [] exponent = 3000 -> MulMilli(MulMilli(base, base), base)

\* ----- Pressure -----

LinearPressureCurve == [kind |-> "linear"]

QuadraticPressureCurve == [kind |-> "quadratic"]

CubicPressureCurve == [kind |-> "cubic"]

CustomPressureCurve(points) == [kind |-> "custom", points |-> points]

\* this.points[i] with the code's index from 0; undefined outside the array.
PointAt(points, i) ==
    IF i + 1 \in DOMAIN points THEN points[i + 1] ELSE NaN

CustomApply(points, pressure) ==
    LET segments == Len(points) - 1
        segment == (pressure * segments) \div 1000
        t == pressure * segments - segment * 1000
    IN IF segment >= segments THEN PointAt(points, Len(points) - 1)
       ELSE LET a == PointAt(points, segment)
                b == PointAt(points, segment + 1)
            IN IF a = NaN \/ b = NaN THEN NaN
               ELSE RoundDiv(a * (1000 - t) + b * t, 1000)

\* pressureCurve.apply(pressure)
CurveApply(curve, pressure) ==
    CASE curve.kind = "linear" -> pressure
      [] curve.kind = "quadratic" -> MulMilli(pressure, pressure)
      [] curve.kind = "cubic" -> PowMilli(pressure, 3000)
      [] curve.kind = "custom" -> CustomApply(curve.points, pressure)

setPressureCurve(s, curve, points) ==
    CASE curve = "linear" -> [s EXCEPT !.pressureCurve = LinearPressureCurve]
      [] curve = "quadratic" ->
           [s EXCEPT !.pressureCurve = QuadraticPressureCurve]
      [] curve = "cubic" -> [s EXCEPT !.pressureCurve = CubicPressureCurve]
      [] curve = "custom" ->
           IF points # Null
           THEN [s EXCEPT !.pressureCurve = CustomPressureCurve(points)]
           ELSE s

updateSettings(s, settings) ==
    LET merged == ObjectAssign(s.settings, settings)
    IN [s EXCEPT !.settings = merged,
                 !.pressureSmoothing = 1000 - merged.smoothing,
                 !.palmRejectionEnabled = merged.palmRejection,
                 !.predictionEnabled = merged.predictiveTouch,
                 !.tiltSensitivity = merged.tiltSensitivity]

smoothPressure(s, pressure) ==
    IF pressure = NaN \/ s.lastPressure = NaN
    THEN Returning([s EXCEPT !.lastPressure = NaN], NaN)
    ELSE LET smoothed ==
               RoundDiv(s.lastPressure * s.pressureSmoothing
                          + pressure * (1000 - s.pressureSmoothing), 1000)
         IN Returning([s EXCEPT !.lastPressure = smoothed], smoothed)

\* Math.min(1, Math.max(0, v))
Clamp01(v) ==
    IF v = NaN THEN NaN ELSE IF v < 0 THEN 0 ELSE IF v > 1000 THEN 1000 ELSE v

Sensitive(s, curved) ==
    IF curved = NaN THEN NaN
    ELSE PowMilli(curved, 2000 - s.settings.pressureSensitivity)

getPressureResponse(s, rawPressure) ==
    IF rawPressure # NaN /\ rawPressure < 50 THEN Returning(s, 0)
    ELSE smoothPressure(
           s, Sensitive(s, CurveApply(s.pressureCurve, Clamp01(rawPressure))))

\* ----- Tilt -----

\* Math.PI / 2 in thousandths of a radian.
HalfPi == 1571

ZeroTilt == [magnitude |-> 0, angle |-> 0, x |-> 0, y |-> 0]

\* The tilt vector keeps Math.cos(azimuth) and Math.sin(azimuth) as terms.
getTiltResponse(s, altitude, azimuth) ==
    LET tiltMagnitude == 1000 - RoundDiv(altitude * 1000, HalfPi)
    IN IF tiltMagnitude < s.tiltThreshold THEN ZeroTilt
       ELSE LET sensitiveMagnitude ==
                  PowMilli(tiltMagnitude, 2000 - s.tiltSensitivity)
            IN [magnitude |-> sensitiveMagnitude, angle |-> azimuth,
                x |-> [cos |-> azimuth, times |-> sensitiveMagnitude],
                y |-> [sin |-> azimuth, times |-> sensitiveMagnitude]]

\* ----- Touches -----

\* Platform.OS of the build the model describes.
PlatformOS == "ios"

\* A native touch carries touchType as a string.
detectTouchType(touch) ==
    IF PlatformOS = "ios" /\ "touchType" \in DOMAIN touch
         /\ touch.touchType \in {"stylus", "direct"}
    THEN touch.touchType
    ELSE IF Num(touch, "force") # NaN /\ touch.force > 0
              /\ "altitudeAngle" \in DOMAIN touch
    THEN "stylus"
    ELSE "direct"

createTouchInfo(s, touch) ==
    [identifier |-> touch.identifier,
     type |-> detectTouchType(touch),
     x |-> Or(Num(touch, "pageX"), Num(touch, "x")),
     y |-> Or(Num(touch, "pageY"), Num(touch, "y")),
     force |-> Or(Num(touch, "force"), 0),
     altitude |-> Or(Num(touch, "altitudeAngle"), HalfPi),
     azimuth |-> Or(Num(touch, "azimuthAngle"), 0),
     majorRadius |->
       Or(Or(Num(touch, "radiusX"), Num(touch, "majorRadius")), 1),
     minorRadius |->
       Or(Or(Num(touch, "radiusY"), Num(touch, "minorRadius")), 1),
     timestamp |-> s.now]

\* The value in ret is the Point.
touchInfoToPoint(s, touch) ==
    LET s1 == getPressureResponse(s, touch.force)
        tilt == getTiltResponse(s1, touch.altitude, touch.azimuth)
    IN Returning(s1, [x |-> touch.x, y |-> touch.y, pressure |-> s1.ret,
                      tiltX |-> tilt.x, tiltY |-> tilt.y,
                      timestamp |-> touch.timestamp,
                      altitude |-> touch.altitude,
                      azimuth |-> touch.azimuth])

\* Math.sqrt(dx^2 + dy^2) < radius, for a radius that is not negative.
CloserThan(ax, ay, bx, by, radius) ==
    /\ ax # NaN /\ ay # NaN /\ bx # NaN /\ by # NaN
    /\ (ax - bx) * (ax - bx) + (ay - by) * (ay - by) < radius * radius

\* shouldRejectTouch without the test that the touch came after the pencil.
shouldRejectTouch_AnyOrder(s, touch) ==
    IF ~s.palmRejectionEnabled THEN Returning(s, FALSE)
    ELSE IF touch.type = "stylus" THEN Returning(s, FALSE)
    ELSE IF touch.majorRadius > s.palmRejectionThreshold
    THEN Returning([s EXCEPT !.palmTouches = @ \cup {touch.identifier}], TRUE)
    ELSE IF /\ s.pencilTouch # Null
            /\ CloserThan(touch.x, touch.y, s.pencilTouch.x, s.pencilTouch.y,
                          s.palmRejectionRadius)
            /\ touch.timestamp - s.pencilTouch.timestamp
                 < s.palmRejectionDelay
    THEN Returning([s EXCEPT !.palmTouches = @ \cup {touch.identifier}], TRUE)
    ELSE Returning(s, FALSE)

\* The value in ret is the boolean.
shouldRejectTouch(s, touch) ==
    IF ~s.palmRejectionEnabled THEN Returning(s, FALSE)
    ELSE IF touch.type = "stylus" THEN Returning(s, FALSE)
    ELSE IF touch.majorRadius > s.palmRejectionThreshold
    THEN Returning([s EXCEPT !.palmTouches = @ \cup {touch.identifier}], TRUE)
    ELSE IF /\ s.pencilTouch # Null
            /\ CloserThan(touch.x, touch.y, s.pencilTouch.x, s.pencilTouch.y,
                          s.palmRejectionRadius)
            /\ touch.timestamp - s.pencilTouch.timestamp > 0
            /\ touch.timestamp - s.pencilTouch.timestamp
                 < s.palmRejectionDelay
    THEN Returning([s EXCEPT !.palmTouches = @ \cup {touch.identifier}], TRUE)
    ELSE Returning(s, FALSE)

\* ----- The Map activeTouches -----

MapHas(map, id) == \E n \in DOMAIN map : map[n].identifier = id

MapGet(map, id) ==
    IF MapHas(map, id)
    THEN map[CHOOSE n \in DOMAIN map : map[n].identifier = id]
    ELSE Null

\* set() keeps the place of a key the Map already holds.
MapSet(map, id, value) ==
    IF MapHas(map, id)
    THEN [n \in DOMAIN map |-> IF map[n].identifier = id THEN value ELSE map[n]]
    ELSE Append(map, value)

MapDelete(map, id) == SelectSeq(map, LAMBDA v : v.identifier # id)

\* ----- Event handling -----

\* distance / dt * 1000 keeps the square root as a term.
calculateVelocity(from, to) ==
    LET dx == to.x - from.x
        dy == to.y - from.y
        dt == to.timestamp - from.timestamp
    IN IF dt = 0 THEN 0
       ELSE [sqrt |-> dx * dx + dy * dy, over |-> dt, times |-> 1000]

\* emit(name, {point: <the point in ret>, ...rest})
EmitPoint(s, name, rest) ==
    pencilEmit(s, name, ObjectAssign([point |-> s.ret], rest))

\* The body of the loop of handleTouchStart for a touch that was not
\* rejected.
TrackStarted(s, touchInfo) ==
    IF touchInfo.type = "stylus"
    THEN EmitPoint(touchInfoToPoint(
                     [s EXCEPT !.activeTouches =
                                 MapSet(@, touchInfo.identifier, touchInfo),
                               !.pencilTouch = touchInfo],
                     touchInfo),
                   "pencil:down", [touchInfo |-> touchInfo])
    ELSE [s EXCEPT !.activeTouches =
                     MapSet(@, touchInfo.identifier, touchInfo)]

\* One pass of the loop of handleTouchStart; s is the state after
\* shouldRejectTouch, whose answer is in ret.
StartOne(s, touchInfo) ==
    IF s.ret THEN s ELSE TrackStarted(s, touchInfo)

RECURSIVE pencilHandleTouchStart(_, _)
pencilHandleTouchStart(s, touches) ==
    IF touches = <<>> THEN s
    ELSE pencilHandleTouchStart(
           StartOne(shouldRejectTouch(s, createTouchInfo(s, Head(touches))),
                    createTouchInfo(s, Head(touches))),
           Tail(touches))

MoveTracked(s, existingTouch, touchInfo) ==
    IF touchInfo.type = "stylus"
    THEN EmitPoint(touchInfoToPoint(
                     [s EXCEPT !.activeTouches =
                                 MapSet(@, touchInfo.identifier, touchInfo),
                               !.pencilTouch = touchInfo],
                     touchInfo),
                   "pencil:move",
                   [velocity |-> calculateVelocity(existingTouch, touchInfo),
                    touchInfo |-> touchInfo])
    ELSE [s EXCEPT !.activeTouches =
                     MapSet(@, touchInfo.identifier, touchInfo)]

MoveOne(s, touch) ==
    IF touch.identifier \in s.palmTouches THEN s
    ELSE IF ~MapHas(s.activeTouches, touch.identifier) THEN s
    ELSE MoveTracked(s, MapGet(s.activeTouches, touch.identifier),
                     createTouchInfo(s, touch))

RECURSIVE pencilHandleTouchMove(_, _)
pencilHandleTouchMove(s, touches) ==
    IF touches = <<>> THEN s
    ELSE pencilHandleTouchMove(MoveOne(s, Head(touches)), Tail(touches))

EndTracked(s, touchInfo) ==
    IF touchInfo # Null /\ touchInfo.type = "stylus"
    THEN EmitPoint(touchInfoToPoint([s EXCEPT !.pencilTouch = Null],
                                    touchInfo),
                   "pencil:up", [touchInfo |-> touchInfo])
    ELSE s

EndOne(s, touch) ==
    EndTracked([s EXCEPT !.activeTouches = MapDelete(@, touch.identifier),
                         !.palmTouches = @ \ {touch.identifier}],
               MapGet(s.activeTouches, touch.identifier))

RECURSIVE pencilHandleTouchEnd(_, _)
pencilHandleTouchEnd(s, touches) ==
    IF touches = <<>> THEN s
    ELSE pencilHandleTouchEnd(EndOne(s, Head(touches)), Tail(touches))

Identifiers(touches) == {touches[n].identifier : n \in DOMAIN touches}

\* Only identifiers held by activeTouches are visited.
StaleIds(s, touches) ==
    Identifiers(s.activeTouches) \ Identifiers(touches)

updateActiveTouches(s, touches) ==
    [s EXCEPT !.activeTouches =
                SelectSeq(@, LAMBDA v : v.identifier \in Identifiers(touches)),
              !.palmTouches = @ \ StaleIds(s, touches)]

\* recognize taking every count from three up for a three-finger tap.
recognize_ThreeOrMore(touches) ==
    IF Len(touches) = 2
    THEN [type |-> "pinch", fingerCount |-> 2, scale |-> 1000,
          rotation |-> [atan2 |-> <<touches[2].y - touches[1].y,
                                    touches[2].x - touches[1].x>>],
          center |-> [x |-> [num |-> touches[1].x + touches[2].x, den |-> 2],
                      y |-> [num |-> touches[1].y + touches[2].y, den |-> 2]]]
    ELSE IF Len(touches) >= 3
    THEN [type |-> "tap", fingerCount |-> 3,
          center |-> [x |-> [num |-> touches[1].x + touches[2].x
                                       + touches[3].x, den |-> 3],
                      y |-> [num |-> touches[1].y + touches[2].y
                                       + touches[3].y, den |-> 3]]]
    ELSE Null

\* GestureRecognizer.recognize; a quotient is kept as numerator and
\* denominator, Math.atan2 as a term.
recognize(touches) ==
    IF Len(touches) = 2
    THEN [type |-> "pinch", fingerCount |-> 2, scale |-> 1000,
          rotation |-> [atan2 |-> <<touches[2].y - touches[1].y,
                                    touches[2].x - touches[1].x>>],
          center |-> [x |-> [num |-> touches[1].x + touches[2].x, den |-> 2],
                      y |-> [num |-> touches[1].y + touches[2].y, den |-> 2]]]
    ELSE IF Len(touches) = 3
    THEN [type |-> "tap", fingerCount |-> 3,
          center |-> [x |-> [num |-> touches[1].x + touches[2].x
                                       + touches[3].x, den |-> 3],
                      y |-> [num |-> touches[1].y + touches[2].y
                                       + touches[3].y, den |-> 3]]]
    ELSE Null

recognizeGesture(s, touches) == recognize(touches)

GestureEvent(s, gesture) ==
    CASE gesture.type = "tap" /\ gesture.fingerCount = 2 ->
           pencilEmit(s, "gesture:twoFingerTap", gesture)
      [] gesture.type = "tap" /\ gesture.fingerCount = 3 ->
           pencilEmit(s, "gesture:threeFingerTap", gesture)
      [] gesture.type = "pinch" ->
           pencilEmit(s, "gesture:pinch",
                      [scale |-> gesture.scale, center |-> gesture.center])
      [] gesture.type = "rotate" ->
           pencilEmit(s, "gesture:rotate",
                      [rotation |-> gesture.rotation,
                       center |-> gesture.center])
      [] gesture.type = "pan" /\ gesture.fingerCount = 2 ->
           pencilEmit(s, "gesture:pan",
                      [translation |-> gesture.translation])
      [] OTHER -> s

handleGesture(s, gesture) ==
    [GestureEvent(s, gesture) EXCEPT
       !.activeGesture = [type |-> gesture.type, startTime |-> s.now,
                          data |-> gesture]]

CheckGestures(s, gesture) ==
    IF gesture # Null THEN handleGesture(s, gesture) ELSE s

\* A property the native event does not have reads as undefined.
Has(event, key) == key \in DOMAIN event

\* for (const touch of touches) raises a TypeError on undefined.
Dispatch(s, event) ==
    IF ~Has(event, "type")
         \/ event.type \notin {"touchstart", "touchmove", "touchend",
                               "touchcancel"}
    THEN s
    ELSE IF ~Has(event, "changedTouches") THEN Throw(s)
    ELSE CASE event.type = "touchstart" ->
                pencilHandleTouchStart(s, event.changedTouches)
           [] event.type = "touchmove" ->
                pencilHandleTouchMove(s, event.changedTouches)
           [] event.type \in {"touchend", "touchcancel"} ->
                pencilHandleTouchEnd(s, event.changedTouches)

AfterCleanup(s) == CheckGestures(s, recognizeGesture(s, s.activeTouches))

\* touches.map raises a TypeError on undefined.
CleanupAndGestures(s, event) ==
    IF s.thrown THEN s
    ELSE IF ~Has(event, "touches") THEN Throw(s)
    ELSE Logged(AfterCleanup(updateActiveTouches(s, event.touches)),
                "end", event)

processBufferedEvent(s, event) ==
    CleanupAndGestures(Dispatch(Logged(s, "begin", event), event), event)

RECURSIVE DrainBuffer(_)
DrainBuffer(s) ==
    IF s.thrown \/ s.touchEventBuffer = <<>> THEN s
    ELSE DrainBuffer(
           processBufferedEvent(
             [s EXCEPT !.touchEventBuffer = Tail(@)],
             Head(s.touchEventBuffer)))

Drained(s) == IF s.thrown THEN s ELSE [s EXCEPT !.processingTouches = FALSE]

processTouchBuffer(s) ==
    Drained(DrainBuffer([s EXCEPT !.processingTouches = TRUE]))

NoTouch == [type |-> "none", point |-> Null]

Rejected == [type |-> "rejected", point |-> Null]

Accepted(s, touchInfo) ==
    Returning(s, [type |-> IF touchInfo.type = "stylus" THEN "pencil"
                           ELSE "finger",
                  point |-> s.ret])

\* s is the state after shouldRejectTouch, whose answer is in ret.
ImmediateOne(s, touchInfo) ==
    IF s.ret THEN Returning(s, Rejected)
    ELSE Accepted(touchInfoToPoint(s, touchInfo), touchInfo)

getImmediateTouchResult(s, event) ==
    IF ~Has(event, "changedTouches") THEN Returning(s, NoTouch)
    ELSE IF event.changedTouches = <<>> THEN Returning(s, NoTouch)
    ELSE ImmediateOne(
           shouldRejectTouch(s, createTouchInfo(s, event.changedTouches[1])),
           createTouchInfo(s, event.changedTouches[1]))

Buffered(s, event) == [s EXCEPT !.touchEventBuffer = Append(@, event)]

ProcessIfFree(s) ==
    IF ~s.processingTouches THEN processTouchBuffer(s) ELSE s

TypeError == [thrown |-> "TypeError"]

Immediate(s, event) ==
    IF s.thrown THEN Returning(s, TypeError)
    ELSE getImmediateTouchResult(s, event)

processTouchEvent(s, event) ==
    Immediate(ProcessIfFree(Buffered(s, event)), event)

\* ---------------------------------------------------------------------
\* Specification: touch tracking.  Contacts 1 to 3 come and go at one
\* instant; contact 1 is a stylus, contact 3 a finger, contact 2 either.  No
\* touch carries a force, so the pressure state stays at rest.
\* ---------------------------------------------------------------------

PencilBecomes(s, c) ==
    /\ applePencilHandler' = [k \in HandlerFields |-> s[k]]
    /\ pencilEmitted' = s.emitted
    /\ touchResult' = s.ret
    /\ pencilCall' = c
    /\ pencilLog' = s.log
    /\ UNCHANGED engineVars

ContactIds == 1..3

ContactTypes(id) ==
    CASE id = 1 -> {"stylus"}
      [] id = 2 -> {"stylus", "direct"}
      [] OTHER -> {"direct"}

StylusSamples == {[pageX |-> 100, pageY |-> 100]}

\* A small finger next to the stylus position and a wide one.
PencilFingers ==
    {[pageX |-> 110, pageY |-> 105, radiusX |-> 5],
     [pageX |-> 110, pageY |-> 105, radiusX |-> 30]}

Samples(type, fingers) == IF type = "stylus" THEN StylusSamples ELSE fingers

NativeTouch(id, type, sample) ==
    ObjectAssign(sample, [identifier |-> id, touchType |-> type])

\* The contacts an event lists in touches.
Live(cs) == {id \in DOMAIN cs : cs[id].live}

RECURSIVE TouchList(_)
TouchList(ids) ==
    IF ids = {} THEN <<>>
    ELSE LET id == CHOOSE i \in ids : \A j \in ids : i <= j
         IN <<[identifier |-> id]>> \o TouchList(ids \ {id})

NativeEvent(type, touch, live) ==
    [type |-> type, changedTouches |-> <<touch>>, touches |-> TouchList(live),
     timestamp |-> clock]

Down(cs, id, type, verdict) ==
    [i \in DOMAIN cs \cup {id} |->
       IF i = id THEN [type |-> type, live |-> TRUE, start |-> verdict]
       ELSE cs[i]]

Up(cs, id) == [i \in DOMAIN cs \ {id} |-> cs[i]]

Verdict(ret) == IF ret.type = "rejected" THEN "rejected" ELSE "accepted"

TouchStartIn(ids, fingers) ==
    \E id \in ids \ Live(contacts) :
      \E type \in ContactTypes(id) :
        \E sample \in Samples(type, fingers) :
          /\ PencilBecomes(
               processTouchEvent(
                 PencilEntry,
                 NativeEvent("touchstart", NativeTouch(id, type, sample),
                             Live(contacts) \cup {id})),
               [op |-> "processTouchEvent", type |-> "touchstart",
                touch |-> NativeTouch(id, type, sample)])
          /\ contacts' = Down(contacts, id, type, Verdict(touchResult'))
          /\ UNCHANGED clock

TouchMoveIn(fingers) ==
    \E id \in Live(contacts) :
      \E sample \in Samples(contacts[id].type, fingers) :
        /\ PencilBecomes(
             processTouchEvent(
               PencilEntry,
               NativeEvent("touchmove",
                           NativeTouch(id, contacts[id].type, sample),
                           Live(contacts))),
             [op |-> "processTouchEvent", type |-> "touchmove",
              touch |-> NativeTouch(id, contacts[id].type, sample)])
        /\ UNCHANGED <<contacts, clock>>

TouchEndIn(types, fingers) ==
    \E id \in Live(contacts), type \in types :
      \E sample \in Samples(contacts[id].type, fingers) :
        /\ PencilBecomes(
             processTouchEvent(
               PencilEntry,
               NativeEvent(type, NativeTouch(id, contacts[id].type, sample),
                           Live(contacts) \ {id})),
             [op |-> "processTouchEvent", type |-> type,
              touch |-> NativeTouch(id, contacts[id].type, sample)])
        /\ contacts' = Up(contacts, id)
        /\ UNCHANGED clock

TouchStart == TouchStartIn(ContactIds, PencilFingers)

TouchMove == TouchMoveIn(PencilFingers)

TouchEnd == TouchEndIn({"touchend", "touchcancel"}, PencilFingers)

\* A contact leaves the screen and no touchend is delivered for it.
Vanish ==
    \E id \in Live(contacts) :
        /\ contacts' = [contacts EXCEPT ![id].live = FALSE]
        /\ UNCHANGED <<applePencilHandler, clock, pencilEmitted, touchResult,
                       pencilCall, pencilLog>>
        /\ UNCHANGED engineVars

NextPencil ==
    \/ TouchStart
    \/ TouchMove
    \/ TouchEnd
    \/ Vanish

SpecPencil == Init /\ [][NextPencil]_vars

\* ---------------------------------------------------------------------
\* Claims on touch tracking
\* ---------------------------------------------------------------------

Tracked == applePencilHandler.activeTouches

TrackedStyluses == {n \in DOMAIN Tracked : Tracked[n].type = "stylus"}

PencilEventsFor(name, id) ==
    {n \in DOMAIN pencilEmitted :
       /\ pencilEmitted[n].name = name
       /\ pencilEmitted[n].payload.touchInfo.identifier = id}

\* C21: at most one stylus contact is tracked at any time, and a touchstart
\* of a stylus whose identifier is not the active pencil's leaves the
\* tracked touches without it and emits no pencil:down for it.
C21_OneStylus ==
    /\ Cardinality(TrackedStyluses) <= 1
    /\ (/\ pencilCall.op = "processTouchEvent"
        /\ pencilCall.type = "touchstart"
        /\ pencilCall.touch.touchType = "stylus"
        /\ \E n \in DOMAIN Tracked :
             /\ Tracked[n].type = "stylus"
             /\ Tracked[n].identifier # pencilCall.touch.identifier)
         => (/\ ~MapHas(Tracked, pencilCall.touch.identifier)
             /\ PencilEventsFor("pencil:down",
                                pencilCall.touch.identifier) = {})

Ended ==
    /\ pencilCall.op = "processTouchEvent"
    /\ pencilCall.type \in {"touchend", "touchcancel"}

\* C22: once processTouchEvent has returned for the touchend or touchcancel
\* of a contact, its identifier is neither in palmTouches nor in
\* activeTouches, and palmTouches never holds the identifier of a contact
\* that was released.
C22_ReleasedNotRejected ==
    /\ Ended => /\ pencilCall.touch.identifier
                     \notin applePencilHandler.palmTouches
                /\ ~MapHas(Tracked, pencilCall.touch.identifier)
    /\ applePencilHandler.palmTouches \subseteq DOMAIN contacts

\* C23: after every processed event palmTouches holds only identifiers the
\* event lists in touches, so a rejected contact that left the screen
\* without a touchend is purged by the next event.
C23_RejectedAreLive ==
    pencilCall.op = "processTouchEvent"
      => applePencilHandler.palmTouches \subseteq Live(contacts)

\* C24: every touchmove of a contact that was rejected at its touchstart
\* returns type 'rejected' with no point, emits no event that names the
\* contact and leaves it out of activeTouches.
C24_RejectedStaysRejected ==
    (/\ pencilCall.op = "processTouchEvent"
     /\ pencilCall.type = "touchmove"
     /\ contacts[pencilCall.touch.identifier].start = "rejected")
      => /\ touchResult = Rejected
         /\ \A n \in DOMAIN pencilEmitted :
              "touchInfo" \in DOMAIN pencilEmitted[n].payload
                => pencilEmitted[n].payload.touchInfo.identifier
                     # pencilCall.touch.identifier
         /\ ~MapHas(Tracked, pencilCall.touch.identifier)

\* C25: a touchmove, touchend or touchcancel of a contact that was accepted
\* at its touchstart does not add the contact to palmTouches.
C25_AcceptedNeverRejected ==
    [][(/\ pencilCall'.op = "processTouchEvent"
        /\ pencilCall'.type \in {"touchmove", "touchend", "touchcancel"}
        /\ pencilCall'.touch.identifier \in DOMAIN contacts
        /\ contacts[pencilCall'.touch.identifier].start = "accepted"
        /\ pencilCall'.touch.identifier
             \notin applePencilHandler.palmTouches)
         => pencilCall'.touch.identifier
              \notin applePencilHandler'.palmTouches]_vars

\* ---------------------------------------------------------------------
\* Specification: the palm-rejection decision.  The pencil goes down at
\* (100,100) at time 1000 and up again, rejection is switched on and off,
\* and shouldRejectTouch is called on touches of every kind.
\* ---------------------------------------------------------------------

RejectIds == {2, 3}

RejectRadii == {5, 20, 21, 30}

RejectPositions == {<<110, 105>>, <<100, 200>>, <<400, 400>>}

RejectTimes == {990, 1000, 1020, 1049, 1050, 1100}

TouchInfoOf(id, type, pos, radius, time) ==
    [identifier |-> id, type |-> type, x |-> pos[1], y |-> pos[2],
     force |-> 0, altitude |-> HalfPi, azimuth |-> 0, majorRadius |-> radius,
     minorRadius |-> radius, timestamp |-> time]

RejectInputs ==
    {TouchInfoOf(id, type, pos, radius, time) :
       id \in RejectIds, type \in {"stylus", "direct"},
       pos \in RejectPositions, radius \in RejectRadii, time \in RejectTimes}

RejectPencilDown == TouchStartIn({1}, {})

RejectPencilUp == TouchEndIn({"touchend"}, {})

SetPalmRejection ==
    \E enabled \in BOOLEAN :
        /\ PencilBecomes(
             updateSettings(PencilEntry, [palmRejection |-> enabled]),
             [op |-> "updateSettings",
              settings |-> [palmRejection |-> enabled]])
        /\ UNCHANGED <<contacts, clock>>

ShouldRejectTouch ==
    \E touch \in RejectInputs :
        /\ PencilBecomes(shouldRejectTouch(PencilEntry, touch),
                         [op |-> "shouldRejectTouch", touch |-> touch])
        /\ UNCHANGED <<contacts, clock>>

NextReject ==
    \/ RejectPencilDown
    \/ RejectPencilUp
    \/ SetPalmRejection
    \/ ShouldRejectTouch

SpecReject == Init /\ [][NextReject]_vars

\* The documented decision for a touch, given the handler before the call.
DocumentedReject(h, touch) ==
    /\ h.palmRejectionEnabled
    /\ touch.type # "stylus"
    /\ \/ touch.majorRadius > 20
       \/ /\ h.pencilTouch # Null
          /\ (touch.x - h.pencilTouch.x) * (touch.x - h.pencilTouch.x)
               + (touch.y - h.pencilTouch.y) * (touch.y - h.pencilTouch.y)
               < 100 * 100
          /\ 0 < touch.timestamp - h.pencilTouch.timestamp
          /\ touch.timestamp - h.pencilTouch.timestamp < 50

ExampleTouch(time) == TouchInfoOf(2, "direct", <<110, 105>>, 5, time)

ExamplePencil(h) ==
    /\ h.palmRejectionEnabled
    /\ h.pencilTouch # Null
    /\ h.pencilTouch.x = 100
    /\ h.pencilTouch.y = 100
    /\ h.pencilTouch.timestamp = 1000

\* C26: shouldRejectTouch answers as the documented decision procedure: never
\* for a stylus, never with rejection disabled, otherwise exactly for a major
\* radius above 20 or a pencil closer than 100 and 0 < time difference < 50;
\* a rejected identifier is put in palmTouches and an accepted one is not.
\* With the pencil at (100,100) at 1000, the radius-5 touch at (110,105) is
\* rejected at 1020 and accepted at 1100.
C26_RejectDecision ==
    [][pencilCall'.op = "shouldRejectTouch"
         => /\ touchResult'
                 = DocumentedReject(applePencilHandler, pencilCall'.touch)
            /\ applePencilHandler'.palmTouches
                 = IF touchResult'
                   THEN applePencilHandler.palmTouches
                          \cup {pencilCall'.touch.identifier}
                   ELSE applePencilHandler.palmTouches
            /\ (ExamplePencil(applePencilHandler)
                  /\ pencilCall'.touch = ExampleTouch(1020))
                 => touchResult'
            /\ (ExamplePencil(applePencilHandler)
                  /\ pencilCall'.touch = ExampleTouch(1100))
                 => ~touchResult']_vars

\* The example touch was rejected 20 ms after the pencil went down.
C26_Witness ==
    /\ pencilCall.op = "shouldRejectTouch"
    /\ pencilCall.touch = ExampleTouch(1020)
    /\ ExamplePencil(applePencilHandler)
    /\ touchResult = TRUE
    /\ 2 \in applePencilHandler.palmTouches


GestureNames ==
    {"gesture:twoFingerTap", "gesture:threeFingerTap", "gesture:pinch",
     "gesture:rotate", "gesture:pan"}

GesturesEmitted ==
    {pencilEmitted[n].name : n \in DOMAIN pencilEmitted} \cap GestureNames

TrackedFingers == SelectSeq(Tracked, LAMBDA v : v.type # "stylus")

\* C27: the gesture events of a processed event are those of the tracked
\* touches that are not a stylus: none with fewer than two fingers, a
\* two-finger classification with two fingers, a three-finger tap only with
\* three fingers.
C27_GesturesCountFingers ==
    pencilCall.op = "processTouchEvent"
      => /\ Len(TrackedFingers) < 2 => GesturesEmitted = {}
         /\ Len(TrackedFingers) = 2
              => GesturesEmitted \subseteq
                   {"gesture:twoFingerTap", "gesture:pinch",
                    "gesture:rotate", "gesture:pan"}
         /\ "gesture:threeFingerTap" \in GesturesEmitted
              => Len(TrackedFingers) = 3

\* The part of C27 that does not involve a stylus: with only fingers
\* tracked, two of them give a pinch and three a three-finger tap.
C27_FingersOnly ==
    (pencilCall.op = "processTouchEvent" /\ TrackedStyluses = {})
      => /\ Len(Tracked) < 2 => GesturesEmitted = {}
         /\ Len(Tracked) = 2 => GesturesEmitted = {"gesture:pinch"}
         /\ Len(Tracked) = 3 => GesturesEmitted = {"gesture:threeFingerTap"}


\* ---------------------------------------------------------------------
\* Stroke prediction.  A predicted point holds x and y in half pixels (the
\* acceleration term is halved), its pressure in thousandths and its
\* timestamp in hundredths of a millisecond (a frame is 8.33 ms).
\* ---------------------------------------------------------------------

RECURSIVE IntPower(_, _)
IntPower(base, n) == IF n = 0 THEN 1 ELSE base * IntPower(base, n - 1)

\* current.pressure * Math.pow(0.95, i)
Decayed(pressure, i) ==
    RoundDiv(pressure * IntPower(95, i), IntPower(100, i))

\* predict taking the velocity from the first two points of the history.
Velocity_FromFirst(history) ==
    [x |-> history[2].x - history[1].x, y |-> history[2].y - history[1].y]

Velocity(history) ==
    [x |-> history[Len(history)].x - history[Len(history) - 1].x,
     y |-> history[Len(history)].y - history[Len(history) - 1].y]

Accel(history) ==
    [x |-> (history[Len(history)].x - history[Len(history) - 1].x)
             - (history[Len(history) - 1].x - history[Len(history) - 2].x),
     y |-> (history[Len(history)].y - history[Len(history) - 1].y)
             - (history[Len(history) - 1].y - history[Len(history) - 2].y)]

PredictedAccel(current, velocity, accel, i) ==
    [x |-> 2 * current.x + 2 * velocity.x * i + accel.x * i * i,
     y |-> 2 * current.y + 2 * velocity.y * i + accel.y * i * i,
     pressure |-> Decayed(current.pressure, i),
     timestamp |-> 100 * current.timestamp + i * 833]

PredictedLinear(current, velocity, i) ==
    [x |-> 2 * (current.x + velocity.x * i),
     y |-> 2 * (current.y + velocity.y * i),
     pressure |-> Decayed(current.pressure, i),
     timestamp |-> 100 * current.timestamp + i * 833]

\* StrokePredictor.predict
predict(current, history, frames) ==
    IF Len(history) < 2 THEN <<>>
    ELSE IF Len(history) >= 3
    THEN [i \in 1..frames |->
            PredictedAccel(current, Velocity(history), Accel(history), i)]
    ELSE [i \in 1..frames |->
            PredictedLinear(current, Velocity(history), i)]

predictNextPoint(s, currentPoint, history) ==
    IF ~s.predictionEnabled \/ Len(history) < 2 THEN Returning(s, <<>>)
    ELSE Returning(s, predict(currentPoint, history, s.predictionFrames))

\* ---------------------------------------------------------------------
\* Specification: prediction.  predictNextPoint is called on every current
\* point and every history of up to MaxPredictHistory points of a small
\* grid, with prediction switched on and off.
\* ---------------------------------------------------------------------

PredictPoints ==
    {[x |-> xy[1], y |-> xy[2], pressure |-> 800, timestamp |-> 1000] :
       xy \in {<<0, 0>>, <<10, 0>>, <<30, 5>>, <<10, 5>>}}

RECURSIVE Histories(_)
Histories(n) ==
    IF n = 0 THEN {<<>>}
    ELSE Histories(n - 1)
           \cup {Append(h, p) : h \in {g \in Histories(n - 1) : Len(g) = n - 1},
                                p \in PredictPoints}

SetPredictiveTouch ==
    \E enabled \in BOOLEAN :
        /\ PencilBecomes(
             updateSettings(PencilEntry, [predictiveTouch |-> enabled]),
             [op |-> "updateSettings",
              settings |-> [predictiveTouch |-> enabled]])
        /\ UNCHANGED <<contacts, clock>>

PredictNextPoint ==
    \E currentPoint \in PredictPoints, history \in Histories(MaxPredictHistory) :
        /\ PencilBecomes(
             predictNextPoint(PencilEntry, currentPoint, history),
             [op |-> "predictNextPoint", currentPoint |-> currentPoint,
              history |-> history])
        /\ UNCHANGED <<contacts, clock>>

NextPredict ==
    \/ SetPredictiveTouch
    \/ PredictNextPoint

SpecPredict == Init /\ [][NextPredict]_vars

\* The documented position of predicted point i, in half pixels.
DocumentedPrediction(c, h, i) ==
    LET n == Len(h)
        vx == h[n].x - h[n - 1].x
        vy == h[n].y - h[n - 1].y
    IN IF n = 2
       THEN [x |-> 2 * (c.x + vx * i), y |-> 2 * (c.y + vy * i)]
       ELSE [x |-> 2 * c.x + 2 * vx * i
                     + (vx - (h[n - 1].x - h[n - 2].x)) * i * i,
             y |-> 2 * c.y + 2 * vy * i
                     + (vy - (h[n - 1].y - h[n - 2].y)) * i * i]

ExampleHistory ==
    << [x |-> 0, y |-> 0, pressure |-> 800, timestamp |-> 1000],
       [x |-> 10, y |-> 0, pressure |-> 800, timestamp |-> 1000] >>

ExampleCurrent == [x |-> 10, y |-> 0, pressure |-> 800, timestamp |-> 1000]

\* C28: predictNextPoint returns no point for a history of fewer than two
\* points or with prediction disabled, and otherwise three points, point i
\* at c + v*i for a history of two points and at c + v*i + a*i*i/2 for three
\* or more, v and a taken from the last points of the history; from the
\* history (0,0),(10,0) and current (10,0) the first point is (20,0).
C28_Prediction ==
    pencilCall.op = "predictNextPoint"
      => /\ (~applePencilHandler.predictionEnabled
               \/ Len(pencilCall.history) < 2)
              => touchResult = <<>>
         /\ (applePencilHandler.predictionEnabled
               /\ Len(pencilCall.history) >= 2)
              => /\ Len(touchResult) = 3
                 /\ \A i \in 1..3 :
                      LET d == DocumentedPrediction(pencilCall.currentPoint,
                                                    pencilCall.history, i)
                      IN /\ touchResult[i].x = d.x
                         /\ touchResult[i].y = d.y
         /\ (/\ applePencilHandler.predictionEnabled
             /\ pencilCall.history = ExampleHistory
             /\ pencilCall.currentPoint = ExampleCurrent)
              => touchResult[1].x = 2 * 20 /\ touchResult[1].y = 0

\* A prediction was made from three history points with an acceleration.
C28_Witness ==
    /\ pencilCall.op = "predictNextPoint"
    /\ applePencilHandler.predictionEnabled
    /\ Len(pencilCall.history) = 3
    /\ Accel(pencilCall.history).x # 0
    /\ Len(touchResult) = 3


\* ---------------------------------------------------------------------
\* Specification: pressure.  The curve and the settings are changed,
\* getPressureResponse is called on raw pressures inside and outside
\* [0, 1], and a stylus stroke with a force goes down and up.
\* ---------------------------------------------------------------------

RawPressures == {0 - 100, 20, 500, 1000, 1500}

CurveNames == {"linear", "quadratic", "cubic", "custom"}

CurvePoints == {Null, <<0, 500, 1000>>, <<0, 2000>>}

PressureSettings ==
    {[pressureSensitivity |-> 1000], [pressureSensitivity |-> 2000],
     [smoothing |-> 0], [smoothing |-> 1000]}

PressedSamples ==
    {[pageX |-> 100, pageY |-> 100, force |-> force] : force \in {20, 800}}

SetPressureCurve ==
    \E curve \in CurveNames, points \in CurvePoints :
        /\ PencilBecomes(
             Returning(setPressureCurve(PencilEntry, curve, points), Null),
             [op |-> "setPressureCurve", curve |-> curve, points |-> points])
        /\ UNCHANGED <<contacts, clock>>

UpdatePressureSettings ==
    \E settings \in PressureSettings :
        /\ PencilBecomes(updateSettings(PencilEntry, settings),
                         [op |-> "updateSettings", settings |-> settings])
        /\ UNCHANGED <<contacts, clock>>

GetPressureResponse ==
    \E rawPressure \in RawPressures :
        /\ clock < MaxClock
        /\ PencilBecomes(getPressureResponse(PencilEntry, rawPressure),
                         [op |-> "getPressureResponse",
                          rawPressure |-> rawPressure])
        /\ clock' = clock + 1
        /\ UNCHANGED contacts

StrokeStart ==
    \E sample \in PressedSamples :
        /\ Live(contacts) = {}
        /\ clock < MaxClock
        /\ PencilBecomes(
             processTouchEvent(
               PencilEntry,
               NativeEvent("touchstart", NativeTouch(1, "stylus", sample),
                           {1})),
             [op |-> "processTouchEvent", type |-> "touchstart",
              touch |-> NativeTouch(1, "stylus", sample)])
        /\ contacts' = Down(contacts, 1, "stylus", Verdict(touchResult'))
        /\ clock' = clock + 1

StrokeEnd ==
    \E sample \in PressedSamples :
        /\ Live(contacts) = {1}
        /\ clock < MaxClock
        /\ PencilBecomes(
             processTouchEvent(
               PencilEntry,
               NativeEvent("touchend", NativeTouch(1, "stylus", sample), {})),
             [op |-> "processTouchEvent", type |-> "touchend",
              touch |-> NativeTouch(1, "stylus", sample)])
        /\ contacts' = Up(contacts, 1)
        /\ clock' = clock + 1

NextPressure ==
    \/ SetPressureCurve
    \/ UpdatePressureSettings
    \/ GetPressureResponse
    \/ StrokeStart
    \/ StrokeEnd

SpecPressure == Init /\ [][NextPressure]_vars

\* C29: every value returned by getPressureResponse is within [0, 1], and
\* so is the stored smoothing state, whatever the raw input, the curve, the
\* settings and the earlier samples.
C29_PressureInUnitRange ==
    /\ applePencilHandler.lastPressure \in 0..1000
    /\ pencilCall.op = "getPressureResponse" => touchResult \in 0..1000


PencilUpEmitted ==
    \E n \in DOMAIN pencilEmitted : pencilEmitted[n].name = "pencil:up"

\* C30: when the touchend of a stylus contact has been processed and
\* pencil:up emitted, the smoothing state is back at 0, so the next stroke
\* is smoothed against 0; and a raw pressure below 0.05 returns 0 and leaves
\* the smoothing state as it was.
C30_SmoothingResetAtStrokeEnd ==
    [][/\ (/\ pencilCall'.op = "processTouchEvent"
           /\ pencilCall'.type = "touchend"
           /\ pencilCall'.touch.touchType = "stylus"
           /\ PencilUpEmitted')
            => applePencilHandler'.lastPressure = 0
       /\ (/\ pencilCall'.op = "getPressureResponse"
           /\ pencilCall'.rawPressure < 50)
            => /\ touchResult' = 0
               /\ applePencilHandler'.lastPressure
                    = applePencilHandler.lastPressure]_vars

\* The deadzone part of C30 alone.
C30_Deadzone ==
    [][(/\ pencilCall'.op = "getPressureResponse"
        /\ pencilCall'.rawPressure < 50)
         => /\ touchResult' = 0
            /\ applePencilHandler'.lastPressure
                 = applePencilHandler.lastPressure]_vars

CurveInRange(curve) ==
    curve.kind = "custom"
      => \A i \in DOMAIN curve.points : curve.points[i] \in 0..1000

\* With a built-in curve, or a custom curve whose points are within [0, 1],
\* a smoothing state within [0, 1] stays there and so does the response.
C29_BuiltInCurves ==
    [][(/\ CurveInRange(applePencilHandler.pressureCurve)
        /\ applePencilHandler.lastPressure \in 0..1000)
         => /\ applePencilHandler'.lastPressure \in 0..1000
            /\ pencilCall'.op = "getPressureResponse"
                 => touchResult' \in 0..1000]_vars


\* ---------------------------------------------------------------------
\* Specification: ingestion.  Contacts 1 and 2 come and go, and events
\* arrive whose changedTouches or touches are missing or empty.
\* ---------------------------------------------------------------------

IngestIds == {1, 2}

EventTypes == {"touchstart", "touchmove", "touchend", "touchcancel"}

\* Native events without changedTouches or with none in it, with and
\* without touches.
MalformedEvents(live) ==
    UNION {{[type |-> type, timestamp |-> clock],
            [type |-> type, changedTouches |-> <<>>, timestamp |-> clock],
            [type |-> type, touches |-> TouchList(live), timestamp |-> clock],
            [type |-> type, changedTouches |-> <<>>,
             touches |-> TouchList(live), timestamp |-> clock],
            [type |-> type, changedTouches |-> <<>>, touches |-> <<>>,
             timestamp |-> clock]} : type \in EventTypes}

Waiting == Len(applePencilHandler.touchEventBuffer)

IngestStart ==
    Waiting < MaxBuffered /\ TouchStartIn(IngestIds, PencilFingers)

IngestMove == Waiting < MaxBuffered /\ TouchMoveIn(PencilFingers)

IngestEnd ==
    Waiting < MaxBuffered /\ TouchEndIn({"touchend"}, PencilFingers)

IngestMalformed ==
    \E event \in MalformedEvents(Live(contacts)) :
        /\ Waiting < MaxBuffered
        /\ PencilBecomes(processTouchEvent(PencilEntry, event),
                         [op |-> "processTouchEvent", type |-> event.type,
                          event |-> event])
        /\ UNCHANGED <<contacts, clock>>

NextIngest ==
    \/ IngestStart
    \/ IngestMove
    \/ IngestEnd
    \/ IngestMalformed

SpecIngest == Init /\ [][NextIngest]_vars

\* C31: processTouchEvent never raises; for an event whose changedTouches
\* are missing or empty it returns type 'none'; and when it has returned the
\* handler is not left processing and no event is left waiting.
C31_IngestNeverStalls ==
    pencilCall.op = "processTouchEvent"
      => /\ touchResult # TypeError
         /\ "event" \in DOMAIN pencilCall => touchResult = NoTouch
         /\ ~applePencilHandler.processingTouches
         /\ applePencilHandler.touchEventBuffer = <<>>

\* The part of C31 about events that have their changedTouches and touches,
\* however few: none raises or stalls the handler that was not stalled.
C31_EmptyListsAreSafe ==
    [][(/\ pencilCall'.op = "processTouchEvent"
        /\ ~applePencilHandler.processingTouches
        /\ "event" \in DOMAIN pencilCall'
        /\ Has(pencilCall'.event, "changedTouches")
        /\ Has(pencilCall'.event, "touches"))
         => /\ touchResult' = NoTouch
            /\ ~applePencilHandler'.processingTouches
            /\ applePencilHandler'.touchEventBuffer = <<>>]_vars


\* ---------------------------------------------------------------------
\* Specification: re-entrant ingestion.  Contacts 1 and 2 come and go; a
\* subscriber of pencil:down may answer the stylus touchstart by submitting
\* an event of its own while the touchstart is being processed.
\* ---------------------------------------------------------------------

\* What the subscriber submits: a move of the stylus that went down, or the
\* touchstart of finger 2.
InnerEvents(live) ==
    {NativeEvent("touchmove", NativeTouch(1, "stylus", sample), live \cup {1}) :
       sample \in StylusSamples}
      \cup {NativeEvent("touchstart", NativeTouch(2, "direct", sample),
                        live \cup {1, 2}) :
              sample \in IF 2 \in live THEN {} ELSE PencilFingers}

InnerContacts(cs, inner, rejected) ==
    IF inner.type = "touchstart"
    THEN Down(cs, 2, "direct", IF 2 \in rejected THEN "rejected" ELSE "accepted")
    ELSE cs

ReentrantStart ==
    \E sample \in StylusSamples, inner \in InnerEvents(Live(contacts)) :
        /\ 1 \notin Live(contacts)
        /\ PencilBecomes(
             processTouchEvent(
               [PencilEntry EXCEPT !.onEmit = <<inner>>],
               NativeEvent("touchstart", NativeTouch(1, "stylus", sample),
                           Live(contacts) \cup {1})),
             [op |-> "processTouchEvent", type |-> "touchstart",
              touch |-> NativeTouch(1, "stylus", sample),
              subscriber |-> <<inner>>])
        /\ contacts' = InnerContacts(
                         Down(contacts, 1, "stylus", Verdict(touchResult')),
                         inner, applePencilHandler'.palmTouches)
        /\ UNCHANGED clock

PlainStart == TouchStartIn(IngestIds, PencilFingers)

PlainMove == TouchMoveIn(PencilFingers)

PlainEnd == TouchEndIn({"touchend"}, PencilFingers)

NextReentrant ==
    \/ ReentrantStart
    \/ PlainStart
    \/ PlainMove
    \/ PlainEnd

SpecReentrant == Init /\ [][NextReentrant]_vars

StepsOf(log, steps) == SelectSeq(log, LAMBDA e : e.step \in steps)

EventsOf(log) == [n \in DOMAIN log |-> log[n].event]

\* Every begin is followed by the end of the same event before the next
\* begin.
OneAtATime(handling) ==
    /\ Len(handling) % 2 = 0
    /\ \A n \in DOMAIN handling :
         IF n % 2 = 1
         THEN /\ handling[n].step = "begin"
              /\ handling[n + 1].event = handling[n].event
         ELSE handling[n].step = "end"

\* C32: events are handled one at a time, each once and in arrival order;
\* an event submitted from a subscriber while another is being processed
\* is only put in the buffer, and is handled after that one has completed;
\* when the outermost call returns the buffer is empty and the handler is
\* not processing.
C32_OneAtATimeInOrder ==
    pencilCall.op = "processTouchEvent"
      => /\ OneAtATime(StepsOf(pencilLog, {"begin", "end"}))
         /\ EventsOf(StepsOf(pencilLog, {"begin"}))
              = <<pencilLog[1].event>>
                  \o EventsOf(StepsOf(pencilLog, {"submitted"}))
         /\ pencilLog[1].event.changedTouches = <<pencilCall.touch>>
         /\ \A n \in DOMAIN pencilLog :
              pencilLog[n].step = "submitted" => pencilLog[n].quiet
         /\ applePencilHandler.touchEventBuffer = <<>>
         /\ ~applePencilHandler.processingTouches

\* C32 without the requirement that the re-entrant call changes nothing but
\* the buffer.
C32_Ordering ==
    pencilCall.op = "processTouchEvent"
      => /\ OneAtATime(StepsOf(pencilLog, {"begin", "end"}))
         /\ EventsOf(StepsOf(pencilLog, {"begin"}))
              = <<pencilLog[1].event>>
                  \o EventsOf(StepsOf(pencilLog, {"submitted"}))
         /\ applePencilHandler.touchEventBuffer = <<>>
         /\ ~applePencilHandler.processingTouches

\* A subscriber submitted an event during the touchstart and both were
\* handled.
C32_Reentered ==
    /\ pencilCall.op = "processTouchEvent"
    /\ Len(StepsOf(pencilLog, {"submitted"})) = 1
    /\ Len(StepsOf(pencilLog, {"end"})) = 2


\* ---------------------------------------------------------------------
\* Specification: gestures.  recognizeGesture is called on up to
\* MaxGestureTouches touches, and small fingers 1 to 3 and the stylus come
\* and go.
\* ---------------------------------------------------------------------

GesturePositions == {<<0, 0>>, <<10, 4>>, <<7, 30>>}

RECURSIVE TouchLists(_)
TouchLists(n) ==
    IF n = 0 THEN {<<>>}
    ELSE TouchLists(n - 1)
           \cup {Append(l, TouchInfoOf(n, "direct", pos, 5, 1000)) :
                   l \in {g \in TouchLists(n - 1) : Len(g) = n - 1},
                   pos \in GesturePositions}

SmallFingers == {[pageX |-> 110, pageY |-> 105, radiusX |-> 5]}

RecognizeGesture ==
    \E touches \in TouchLists(MaxGestureTouches) :
        /\ PencilBecomes(
             Returning(PencilEntry, recognizeGesture(PencilEntry, touches)),
             [op |-> "recognizeGesture", touches |-> touches])
        /\ UNCHANGED <<contacts, clock>>

GestureStart == TouchStartIn(ContactIds, SmallFingers)

GestureEnd == TouchEndIn({"touchend"}, SmallFingers)

NextGesture ==
    \/ RecognizeGesture
    \/ GestureStart
    \/ GestureEnd

SpecGesture == Init /\ [][NextGesture]_vars

SumOf(touches, key) ==
    IF Len(touches) = 2 THEN touches[1][key] + touches[2][key]
    ELSE touches[1][key] + touches[2][key] + touches[3][key]

\* C33: the recognizer answers by the number of touches alone: a pinch of
\* two fingers centred at the midpoint for two touches, a tap of three
\* fingers centred at the mean for three, nothing for any other number; and
\* a processed event emits at most one gesture event.
C33_GestureByCount ==
    /\ pencilCall.op = "recognizeGesture"
         => IF Len(pencilCall.touches) \in {2, 3}
            THEN /\ touchResult.type
                      = (IF Len(pencilCall.touches) = 2 THEN "pinch" ELSE "tap")
                 /\ touchResult.fingerCount = Len(pencilCall.touches)
                 /\ touchResult.center.x.num = SumOf(pencilCall.touches, "x")
                 /\ touchResult.center.y.num = SumOf(pencilCall.touches, "y")
                 /\ touchResult.center.x.den = Len(pencilCall.touches)
                 /\ touchResult.center.y.den = Len(pencilCall.touches)
            ELSE touchResult = Null
    /\ pencilCall.op = "processTouchEvent"
         => Cardinality({n \in DOMAIN pencilEmitted :
                           pencilEmitted[n].name \in GestureNames}) <= 1

\* Four touches were given to the recognizer and it found no gesture.
C33_Witness ==
    /\ pencilCall.op = "recognizeGesture"
    /\ Len(pencilCall.touches) = 4
    /\ touchResult = Null

\* An event was processed with three touches tracked and one gesture event
\* came out.
C33_WitnessEvent ==
    /\ pencilCall.op = "processTouchEvent"
    /\ Len(Tracked) = 3
    /\ Cardinality(GesturesEmitted) = 1


\* ---------------------------------------------------------------------
\* Specification: hit testing.  A session on a layer (bounds at the origin)
\* or on a selection with explicit bounds is moved, scaled and rotated, and
\* touched at the positions of its handles, inside and outside its bounds.
\* ---------------------------------------------------------------------

HitPatches == {[x |-> 100], [scale |-> 200], [rotation |-> 900]}

PositionedHandles(hs) ==
    {n \in DOMAIN hs : Num(hs[n], "x") # NaN /\ Num(hs[n], "y") # NaN}

HitPoints(hs) ==
    {[x |-> hs[n].x, y |-> hs[n].y] : n \in PositionedHandles(hs)}
      \cup {[x |-> 50, y |-> 50], [x |-> 140, y |-> 40], [x |-> 300, y |-> 300]}

HitStart ==
    \E c \in {[op |-> "startTransform", target |-> LayerTarget("L1"),
               bounds |-> Null, makeOk |-> TRUE],
              [op |-> "startTransform", target |-> SelectionTarget,
               bounds |-> ExplicitBounds, makeOk |-> TRUE]} :
        /\ Becomes(startTransform(Entry, c.target, c.bounds, c.makeOk), c)
        /\ UNCHANGED undos

HitUpdate ==
    \E patch \in HitPatches :
        /\ Becomes(updateTransform(Entry, patch, TRUE),
                   [op |-> "updateTransform", patch |-> patch,
                    makeOk |-> TRUE])
        /\ UNCHANGED undos

HitTouchStart ==
    \E point \in HitPoints(handles) :
        /\ Becomes(handleTouchStart(Entry, point),
                   [op |-> "handleTouchStart", point |-> point])
        /\ UNCHANGED undos

HitTouchEnd == HandleTouchEnd

HitCancel == CancelTransform

NextHit ==
    \/ HitStart
    \/ HitUpdate
    \/ HitTouchStart
    \/ HitTouchEnd
    \/ HitCancel

SpecHit == Init /\ [][NextHit]_vars

\* The point is more than the hit size away from every positioned handle.
OnNoHandle(point, hs) ==
    \A n \in PositionedHandles(hs) :
        \/ Abs(point.x - hs[n].x) > handleSize
        \/ Abs(point.y - hs[n].y) > handleSize

\* C34: in an active session, a touch on no handle begins a move exactly
\* when it lies inside the bounds mapped through the current matrix, and
\* returns null otherwise.
C34_MoveInsideTransformedBounds ==
    (/\ call.op = "handleTouchStart"
     /\ activeTransform # Null
     /\ OnNoHandle(call.point, handles))
      => result.ret = IF isPointInBounds(call.point,
                                         getTransformedBounds(State))
                      THEN "move" ELSE "null"

\* C35: in an active session, a touch at the exact position of a
\* positioned handle selects a handle, whatever the coordinates, 0 included.
C35_EveryHandleCanBeHit ==
    (/\ call.op = "handleTouchStart"
     /\ activeTransform # Null
     /\ \E n \in PositionedHandles(handles) :
          handles[n].x = call.point.x /\ handles[n].y = call.point.y)
      => /\ result.ret \notin {"move", "null"}
         /\ activeHandle # Null
         /\ activeHandle.type # "move"

\* C35 for the handles whose coordinates are both different from 0.
C35_HandlesAwayFromZero ==
    (/\ call.op = "handleTouchStart"
     /\ activeTransform # Null
     /\ \E n \in PositionedHandles(handles) :
          /\ handles[n].x = call.point.x /\ handles[n].y = call.point.y
          /\ handles[n].x # 0 /\ handles[n].y # 0)
      => /\ result.ret \notin {"move", "null"}
         /\ activeHandle # Null
         /\ activeHandle.type # "move"

\* C34 while the matrix is the identity.
C34_Untransformed ==
    (/\ call.op = "handleTouchStart"
     /\ activeTransform # Null
     /\ OnNoHandle(call.point, handles)
     /\ getTransformedBounds(State) = activeTransform.bounds)
      => result.ret = IF isPointInBounds(call.point, activeTransform.bounds)
                      THEN "move" ELSE "null"


ParameterOps ==
    {"updateTransform", "flip", "rotate", "reset", "setMode",
     "toggleAspectRatio", "toggleSnapping"}

\* C36: when a parameter operation has returned in an active session, the
\* matrix is the composition of the session's current parameters and the
\* handles are placed from that matrix.
C36_MatrixFollowsParameters ==
    (activeTransform # Null /\ call.op \in ParameterOps)
      => /\ transformMatrix = updateTransformMatrix(State).transformMatrix
         /\ handles = updateHandles(State).handles

\* C36 for the operations that go through updateTransform.
C36_ThroughUpdateTransform ==
    (/\ activeTransform # Null
     /\ call.op \in {"updateTransform", "flip", "rotate", "reset"})
      => /\ transformMatrix = updateTransformMatrix(State).transformMatrix
         /\ handles = updateHandles(State).handles


\* ---------------------------------------------------------------------
\* Dragging
\* ---------------------------------------------------------------------

handleMove(s, delta, makeOk) ==
    IF s.activeTransform = Null THEN s
    ELSE updateTransform(
           s, [x |-> Add(Num(s.activeTransform.transform, "x"), delta.x),
               y |-> Add(Num(s.activeTransform.transform, "y"), delta.y)],
           makeOk)

\* Squared distance of (x, y) from the centre of the bounds, times 4.
Dist2(x, y, bounds) ==
    IF x = NaN \/ y = NaN THEN NaN
    ELSE (2 * x - 2 * bounds.x - bounds.width)
           * (2 * x - 2 * bounds.x - bounds.width)
         + (2 * y - 2 * bounds.y - bounds.height)
             * (2 * y - 2 * bounds.y - bounds.height)

RECURSIVE SqrtFrom(_, _)
SqrtFrom(n, r) == IF (r + 1) * (r + 1) > n THEN r ELSE SqrtFrom(n, r + 1)

\* currentDist / originalDist in hundredths; 0 / 0 is NaN.
DistRatio(current2, original2) ==
    IF current2 = NaN \/ original2 = NaN THEN NaN
    ELSE IF original2 = 0 /\ current2 = 0 THEN NaN
    ELSE SqrtFrom((10000 * current2) \div original2, 0)

handleScale(s, point, handle, makeOk) ==
    IF s.activeTransform = Null THEN s
    ELSE updateTransform(
           s, [scale |-> DistRatio(
                           Dist2(point.x, point.y, s.activeTransform.bounds),
                           Dist2(Num(handle, "x"), Num(handle, "y"),
                                 s.activeTransform.bounds))],
           makeOk)

\* Math.atan2(dy, dx) along the positive x axis.
Atan2(dy, dx) == CASE dy = 0 /\ dx > 0 -> 0

RotateAbout(s, point, bounds, makeOk) ==
    updateTransform(
      s, [rotation |-> Atan2(2 * point.y - 2 * bounds.y - bounds.height,
                             2 * point.x - 2 * bounds.x - bounds.width)],
      makeOk)

handleRotate(s, point, handle, makeOk) ==
    IF s.activeTransform = Null THEN s
    ELSE RotateAbout(s, point, getTransformedBounds(s), makeOk)

handleCorner(s, point, handle) == s

handlePerspective(s, point, handle) == s

handleWarp(s, point, handle) == s

DragBy(s, point, startPoint, makeOk) ==
    CASE s.activeHandle.type = "move" ->
           handleMove(s, [x |-> point.x - startPoint.x,
                          y |-> point.y - startPoint.y], makeOk)
      [] s.activeHandle.type = "scale" ->
           handleScale(s, point, s.activeHandle, makeOk)
      [] s.activeHandle.type = "rotate" ->
           handleRotate(s, point, s.activeHandle, makeOk)
      [] s.activeHandle.type = "corner" ->
           handleCorner(s, point, s.activeHandle)
      [] s.activeHandle.type = "perspective" ->
           handlePerspective(s, point, s.activeHandle)
      [] s.activeHandle.type = "warp" ->
           handleWarp(s, point, s.activeHandle)
      [] OTHER -> s

handleTouchMove(s, point, startPoint, makeOk) ==
    IF s.activeTransform = Null \/ s.activeHandle = Null
    THEN Return(s, "handleTouchMove", "void")
    ELSE Return(DragBy(s, point, startPoint, makeOk),
                "handleTouchMove", "void")

\* ---------------------------------------------------------------------
\* Specification: dragging.  A session on a layer is touched inside
\* its bounds and dragged, with snapping on and off.
\* ---------------------------------------------------------------------

DragStarts == {[x |-> 50, y |-> 50]}

DragPoints == {[x |-> 50, y |-> 50], [x |-> 60, y |-> 55], [x |-> 40, y |-> 50]}

WithinReach ==
    /\ activeTransform # Null
    /\ Abs(activeTransform.transform.x) < MaxOffset
    /\ Abs(activeTransform.transform.y) < MaxOffset

DragSession ==
    /\ Becomes(startTransform(Entry, LayerTarget("L1"), Null, TRUE),
               [op |-> "startTransform", target |-> LayerTarget("L1"),
                bounds |-> Null, makeOk |-> TRUE])
    /\ UNCHANGED undos

DragTouchStart ==
    \E point \in DragStarts :
        /\ Becomes(handleTouchStart(Entry, point),
                   [op |-> "handleTouchStart", point |-> point])
        /\ UNCHANGED undos

DragTouchMove ==
    \E point \in DragPoints, startPoint \in DragStarts :
        /\ WithinReach
        /\ Becomes(handleTouchMove(Entry, point, startPoint, TRUE),
                   [op |-> "handleTouchMove", point |-> point,
                    startPoint |-> startPoint])
        /\ UNCHANGED undos

DragTouchEnd == HandleTouchEnd

DragToggleSnapping == ToggleSnapping

NextDrag ==
    \/ DragSession
    \/ DragTouchStart
    \/ DragTouchMove
    \/ DragTouchEnd
    \/ DragToggleSnapping

SpecDrag == Init /\ [][NextDrag]_vars

Moving(handle) == handle # Null /\ handle.type = "move"

OffsetBy(before, after, dx, dy) ==
    /\ after.transform.x = before.transform.x + dx
    /\ after.transform.y = before.transform.y + dy

\* C40: during a move drag with snapping disabled the session position is
\* the position at the start of the drag plus (p_last - s).  Stated step by
\* step: the first callback after handleTouchStart at s moves the position
\* by p - s, and a callback that follows one for p with the same s moves it
\* by the difference of the two points.
C40_DragDoesNotAccumulate ==
    [][(/\ call'.op = "handleTouchMove"
        /\ activeTransform # Null
        /\ Moving(activeHandle)
        /\ ~snapEnabled
        /\ call'.startPoint = activeHandle.position)
         => /\ call.op = "handleTouchStart"
                 => OffsetBy(activeTransform, activeTransform',
                             call'.point.x - call'.startPoint.x,
                             call'.point.y - call'.startPoint.y)
            /\ call.op = "handleTouchMove"
                 => OffsetBy(activeTransform, activeTransform',
                             call'.point.x - call.point.x,
                             call'.point.y - call.point.y)]_vars

\* The first callback of a drag moves the session by p - s.
C40_FirstCallback ==
    [][(/\ call'.op = "handleTouchMove"
        /\ activeTransform # Null
        /\ Moving(activeHandle)
        /\ ~snapEnabled
        /\ call'.startPoint = activeHandle.position
        /\ call.op = "handleTouchStart")
         => OffsetBy(activeTransform, activeTransform',
                     call'.point.x - call'.startPoint.x,
                     call'.point.y - call'.startPoint.y)]_vars


\* C37: after every processed event the pencil state is present exactly
\* when a stylus contact is tracked, and it is then the tracked sample of a
\* stylus contact.
C37_PencilStateFollowsStylus ==
    pencilCall.op = "processTouchEvent"
      => /\ applePencilHandler.pencilTouch # Null <=> TrackedStyluses # {}
         /\ applePencilHandler.pencilTouch # Null
              => \E n \in TrackedStyluses :
                   Tracked[n] = applePencilHandler.pencilTouch


\* ---------------------------------------------------------------------
\* Pencil lifecycle events.  Every contact gets its touchend; an event
\* about one contact may carry a touches list that leaves out a stylus
\* contact which is still on the screen.
\* ---------------------------------------------------------------------

LifecycleStart == TouchStartIn(ContactIds, PencilFingers)

LifecycleMove == TouchMoveIn(PencilFingers)

LifecycleEnd == TouchEndIn({"touchend", "touchcancel"}, PencilFingers)

LifecycleOmitting ==
    \E id \in Live(contacts) :
      \E omitted \in Live(contacts) \ {id} :
        \E sample \in Samples(contacts[id].type, PencilFingers) :
          /\ contacts[omitted].type = "stylus"
          /\ PencilBecomes(
               processTouchEvent(
                 PencilEntry,
                 NativeEvent("touchmove",
                             NativeTouch(id, contacts[id].type, sample),
                             Live(contacts) \ {omitted})),
               [op |-> "processTouchEvent", type |-> "touchmove",
                touch |-> NativeTouch(id, contacts[id].type, sample),
                omitted |-> omitted])
          /\ UNCHANGED <<contacts, clock>>

NextLifecycle ==
    \/ LifecycleStart
    \/ LifecycleMove
    \/ LifecycleEnd
    \/ LifecycleOmitting

SpecLifecycle == Init /\ [][NextLifecycle]_vars

PencilEventsNamed(name) ==
    {n \in DOMAIN pencilEmitted : pencilEmitted[n].name = name}

\* C38: the touchend or touchcancel of a stylus contact emits exactly one
\* pencil:up, for that contact, and a pencil:move is emitted only by the
\* touchmove of a stylus contact that is down.
C38_PencilLifecycle ==
    pencilCall.op = "processTouchEvent"
      => /\ (/\ pencilCall.type \in {"touchend", "touchcancel"}
             /\ pencilCall.touch.touchType = "stylus")
              => /\ Cardinality(PencilEventsNamed("pencil:up")) = 1
                 /\ PencilEventsFor("pencil:up",
                                    pencilCall.touch.identifier)
                      = PencilEventsNamed("pencil:up")
         /\ PencilEventsNamed("pencil:move") # {}
              => /\ pencilCall.type = "touchmove"
                 /\ pencilCall.touch.touchType = "stylus"
                 /\ PencilEventsFor("pencil:move",
                                    pencilCall.touch.identifier)
                      = PencilEventsNamed("pencil:move")

\* C38 for the start of the contact: the touchstart of a stylus emits
\* exactly one pencil:down, for that contact.
C38_DownAtStart ==
    (/\ pencilCall.op = "processTouchEvent"
     /\ pencilCall.type = "touchstart"
     /\ pencilCall.touch.touchType = "stylus")
      => /\ Cardinality(PencilEventsNamed("pencil:down")) = 1
         /\ PencilEventsFor("pencil:down", pencilCall.touch.identifier)
              = PencilEventsNamed("pencil:down")


\* ---------------------------------------------------------------------
\* Pressure samples through processTouchEvent: a stylus (contact 1) and
\* a finger away from it (contact 2), both reporting a force.
\* ---------------------------------------------------------------------

MaxSampled == 4

SampleForces == {20, 400, 800}

SampledTouch(id, force) ==
    IF id = 1
    THEN NativeTouch(1, "stylus",
                     [pageX |-> 100, pageY |-> 100, force |-> force])
    ELSE NativeTouch(2, "direct",
                     [pageX |-> 400, pageY |-> 400, radiusX |-> 5,
                      force |-> force])

Sampled(type, id, force, live) ==
    /\ clock < 1000 + MaxSampled
    /\ PencilBecomes(
         processTouchEvent(
           PencilEntry, NativeEvent(type, SampledTouch(id, force), live)),
         [op |-> "processTouchEvent", type |-> type,
          touch |-> SampledTouch(id, force)])
    /\ clock' = clock + 1

SampleStart ==
    \E id \in {1, 2} \ Live(contacts), force \in SampleForces :
        /\ Sampled("touchstart", id, force, Live(contacts) \cup {id})
        /\ contacts' = Down(contacts, id, IF id = 1 THEN "stylus" ELSE "direct",
                            Verdict(touchResult'))

SampleMove ==
    \E id \in Live(contacts), force \in SampleForces :
        /\ Sampled("touchmove", id, force, Live(contacts))
        /\ UNCHANGED contacts

SampleEnd ==
    \E id \in Live(contacts), force \in SampleForces :
        /\ Sampled("touchend", id, force, Live(contacts) \ {id})
        /\ contacts' = Up(contacts, id)

NextSample ==
    \/ SampleStart
    \/ SampleMove
    \/ SampleEnd

SpecSample == Init /\ [][NextSample]_vars

\* C39: a processed finger touch leaves the smoothing state unchanged, and
\* a processed stylus touchstart or touchmove advances it by one smoothing
\* step, the point returned to the caller carrying the pressure of the
\* point emitted in the pencil event of that sample.
C39_SmoothedOncePerStylusSample ==
    [][clock' # clock
         => /\ pencilCall'.touch.touchType = "direct"
                => applePencilHandler'.lastPressure
                     = applePencilHandler.lastPressure
            /\ (/\ pencilCall'.touch.touchType = "stylus"
                /\ pencilCall'.type \in {"touchstart", "touchmove"})
                 => /\ applePencilHandler'.lastPressure
                         = getPressureResponse(
                             PencilEntry, pencilCall'.touch.force).lastPressure
                    /\ \E n \in DOMAIN pencilEmitted' :
                         /\ pencilEmitted'[n].name
                              \in {"pencil:down", "pencil:move"}
                         /\ pencilEmitted'[n].payload.point.pressure
                              = touchResult'.point.pressure]_vars

\* C39 for samples in the dead zone, which skip the smoothing step: the
\* smoothing state is unchanged and the returned and the emitted pressure
\* are both 0.
C39_DeadZoneSamples ==
    [][(/\ clock' # clock
        /\ pencilCall'.touch.force < 50
        /\ pencilCall'.type \in {"touchstart", "touchmove"})
         => /\ applePencilHandler'.lastPressure
                 = applePencilHandler.lastPressure
            /\ pencilCall'.touch.touchType = "stylus"
                 => /\ touchResult'.point.pressure = 0
                    /\ \A n \in DOMAIN pencilEmitted' :
                         pencilEmitted'[n].name
                             \in {"pencil:down", "pencil:move"}
                           => pencilEmitted'[n].payload.point.pressure
                                = 0]_vars

====
